---- MODULE Spec2Model ----
(***************************************************************************)
(* FinBot CTF browser front-end: the request client (api.js), the error    *)
(* taxonomy (APIError), and the form validation engine (utils.js, main.js).*)
(*                                                                         *)
(* JavaScript strings are sequences of lexemes (one-character strings, or  *)
(* an atom standing for a run of characters that no operation here looks   *)
(* inside).  A JavaScript value that may be null or undefined is a record  *)
(* [k, s] with k in {"str", "null", "undef"}.                              *)
(***************************************************************************)
EXTENDS Integers, Sequences, FiniteSets, TLC

VARIABLES
    meta,       \* the <meta name="csrf-token"> element: [present, content]
    cookieJar,  \* the browser's cookie store: a sequence of [name, value]
    calls,      \* calls[c]: one invocation of an api method, per call id
    wire,       \* wire[c]: the request fetch() handed to the transport, in flight
    failure,    \* an APIError under classification
    category,   \* the three predicates' answers for failure, once asked
    form,       \* the bound form: its fields' attributes
    value,      \* value[i]: the text in field i
    errorDivs,  \* errorDivs[i]: the .form-error elements in field i's group
    hasError,   \* hasError[i]: field i's group has the class has-error
    timers,     \* timers[i][h]: ms left of timer h of field i's listener, -1 if none
    timeout,    \* timeout[i]: the debounce closure's timer handle, 0 for none
    hist,       \* hist[i]: what happened to field i since its last quiet moment
    button,     \* the form's submit button: [loading, text, disabled]
    hideLoading, \* hideLoading[c]: the text the closure of submit run c restores
    alerts,     \* the .alert elements of the page, first child first
    location,   \* "page", or where the window was sent
    submitted,  \* the latest submit event: the report and what it led to
    input,      \* the argument of a validator called on its own
    result,     \* what that validator returned
    handled,    \* how the failure was handled: by which function, with which options
    pathname,   \* window.location.pathname, as its segments
    localStorage, \* what localStorage.getItem('agreedToRules') gives
    documentBody, \* document.body: [modals, overflow]
    gate,       \* the agreement script: [readyState, stage, listener, decisions]
    notices     \* notices[n]: the n-th alert showAlert made and its timer

clientVars == <<meta, cookieJar, calls, wire>>
taxonomyVars == <<failure, category>>
fieldVars == <<form, value, errorDivs, hasError, timers, timeout, hist>>
pageVars == <<button, hideLoading, alerts, location, submitted>>
unitVars == <<input, result, handled>>
shellVars == <<pathname, localStorage, documentBody, gate, notices>>

vars == <<meta, cookieJar, calls, wire, failure, category,
          form, value, errorDivs, hasError, timers, timeout, hist,
          button, hideLoading, alerts, location, submitted,
          input, result, handled,
          pathname, localStorage, documentBody, gate, notices>>

\* ------------------------------------------------------------- bounds
MaxCalls == 2
MaxStatus == 600
MaxTimers == 2
MaxEvents == 2
MaxAlerts == 1
MaxDigits == 18
MaxPassword == 9
MaxModals == 3
MaxNotices == 2

CallIds == 1..MaxCalls

\* ------------------------------------------------- JavaScript values
Null == [k |-> "null", s |-> <<>>]
Undef == [k |-> "undef", s |-> <<>>]
Str(s) == [k |-> "str", s |-> s]

\* JavaScript truthiness of a string, null or undefined.
Truthy(v) == v.k = "str" /\ v.s # <<>>

\* a || b
OrElse(a, b) == IF Truthy(a) THEN a ELSE b

Whitespace == {" ", "\t", "\n"}

RECURSIVE SplitAcc(_, _, _)
SplitAcc(s, sep, cur) ==
    IF s = <<>> THEN <<cur>>
    ELSE IF Head(s) = sep THEN <<cur>> \o SplitAcc(Tail(s), sep, <<>>)
    ELSE SplitAcc(Tail(s), sep, Append(cur, Head(s)))

\* String.prototype.split(sep) for a one-character separator.
Split(s, sep) == SplitAcc(s, sep, <<>>)

RECURSIVE TrimLeft(_)
TrimLeft(s) == IF s # <<>> /\ Head(s) \in Whitespace THEN TrimLeft(Tail(s)) ELSE s

RECURSIVE TrimRight(_)
TrimRight(s) ==
    IF s # <<>> /\ s[Len(s)] \in Whitespace
    THEN TrimRight(SubSeq(s, 1, Len(s) - 1)) ELSE s

\* String.prototype.trim()
Trim(s) == TrimRight(TrimLeft(s))

\* String.prototype.includes(atom)
Includes(s, atom) == \E i \in 1..Len(s) : s[i] = atom

\* ------------------------------------------------------- ErrorTaxonomy
\* new APIError(message, status, data)
APIError(message, status, data) ==
    [kind |-> "APIError", message |-> message, status |-> status, data |-> data]

isAuthError_wide(e) == e.status = 401 \/ e.status = 403 \/ e.status = 400

isAuthError(e) == e.status = 401 \/ e.status = 403

isValidationError(e) == e.status = 422 \/ e.status = 400

isServerError(e) == e.status >= 500

\* ----------------------------------------------------- FieldValidators
Lower == {"a", "b", "c", "d", "e", "f", "g", "h", "i", "j", "k", "l", "m",
          "n", "o", "p", "q", "r", "s", "t", "u", "v", "w", "x", "y", "z"}
Upper == {"A", "B", "C", "D", "E", "F", "G", "H", "I", "J", "K", "L", "M",
          "N", "O", "P", "Q", "R", "S", "T", "U", "V", "W", "X", "Y", "Z"}
Digits == {"0", "1", "2", "3", "4", "5", "6", "7", "8", "9"}
Special == {"!", "@", "#", "$", "%", "^", "&", "*", "(", ")", ",", ".", "?",
            "\"", ":", "{", "}", "|", "<", ">"}

HasChar(s, class) == \E i \in 1..Len(s) : s[i] \in class

\* /^[^\s@]+@[^\s@]+\.[^\s@]+$/
isValidEmail(email) ==
    /\ ~HasChar(email, Whitespace)
    /\ Cardinality({i \in 1..Len(email) : email[i] = "@"}) = 1
    /\ \E i \in 2..Len(email) :
          /\ email[i] = "@"
          /\ \E j \in (i + 2)..(Len(email) - 1) : email[j] = "."

PasswordMessages ==
    << <<"Password must be at least 8 characters long">>,
       <<"Password must contain at least one lowercase letter">>,
       <<"Password must contain at least one uppercase letter">>,
       <<"Password must contain at least one number">>,
       <<"Password should contain at least one special character">> >>

PasswordChecks(password) ==
    << Len(password) >= 8, HasChar(password, Lower), HasChar(password, Upper),
       HasChar(password, Digits), HasChar(password, Special) >>

RECURSIVE Feedback(_, _)
Feedback(checks, messages) ==
    IF checks = <<>> THEN <<>>
    ELSE (IF Head(checks) THEN <<>> ELSE <<Head(messages)>>)
         \o Feedback(Tail(checks), Tail(messages))

validatePassword_three(password) ==
    LET checks == PasswordChecks(password)
        score == Cardinality({i \in 1..Len(checks) : checks[i]})
    IN  [isValid |-> score >= 3, score |-> score,
         feedback |-> Feedback(checks, PasswordMessages)]

validatePassword(password) ==
    LET checks == PasswordChecks(password)
        score == Cardinality({i \in 1..Len(checks) : checks[i]})
    IN  [isValid |-> score >= 4, score |-> score,
         feedback |-> Feedback(checks, PasswordMessages)]

\* ------------------------------------------------- identifier validators
\* value.replace(/\D/g, '')
StripNonDigits(s) == SelectSeq(s, LAMBDA ch : ch \in Digits)

\* /^\d{2}-?\d{7}$/.test(s)
TinRegex(s) ==
    /\ Len(s) >= 2
    /\ s[1] \in Digits /\ s[2] \in Digits
    /\ LET rest == SubSeq(s, 3, Len(s))
           tail == IF rest # <<>> /\ Head(rest) = "-" THEN Tail(rest) ELSE rest
       IN  Len(tail) = 7 /\ \A i \in 1..Len(tail) : tail[i] \in Digits

validateTIN_digitsOnly(tin) ==
    IF tin = <<>> THEN [isValid |-> FALSE, message |-> <<"TIN/EIN is required">>]
    ELSE IF Len(StripNonDigits(tin)) # 9
    THEN [isValid |-> FALSE, message |-> <<"TIN/EIN must be 9 digits">>]
    ELSE [isValid |-> TRUE, message |-> <<>>]

\* validateTIN(tin)
validateTIN(tin) ==
    IF tin = <<>> THEN [isValid |-> FALSE, message |-> <<"TIN/EIN is required">>]
    ELSE IF Len(StripNonDigits(tin)) # 9
    THEN [isValid |-> FALSE, message |-> <<"TIN/EIN must be 9 digits">>]
    ELSE IF ~TinRegex(tin)
    THEN [isValid |-> FALSE,
          message |-> <<"Please enter a valid TIN/EIN format (XX-XXXXXXX or XXXXXXXXX)">>]
    ELSE [isValid |-> TRUE, message |-> <<>>]

validateBankAccount_sixteen(accountNumber) ==
    IF accountNumber = <<>> THEN [isValid |-> FALSE, message |-> <<"Bank account number is required">>]
    ELSE IF Len(StripNonDigits(accountNumber)) < 8
            \/ Len(StripNonDigits(accountNumber)) > 16
    THEN [isValid |-> FALSE, message |-> <<"Bank account number should be 8-17 digits">>]
    ELSE [isValid |-> TRUE, message |-> <<>>]

\* validateBankAccount(accountNumber)
validateBankAccount(accountNumber) ==
    LET cleanAccount == StripNonDigits(accountNumber)
    IN  IF accountNumber = <<>>
        THEN [isValid |-> FALSE, message |-> <<"Bank account number is required">>]
        ELSE IF Len(cleanAccount) < 8 \/ Len(cleanAccount) > 17
        THEN [isValid |-> FALSE, message |-> <<"Bank account number should be 8-17 digits">>]
        ELSE IF cleanAccount = <<>> \/ \E i \in 1..Len(cleanAccount) : cleanAccount[i] \notin Digits
        THEN [isValid |-> FALSE, message |-> <<"Bank account number should contain only digits">>]
        ELSE [isValid |-> TRUE, message |-> <<>>]

validateRoutingNumber_atLeast(routingNumber) ==
    IF routingNumber = <<>>
    THEN [isValid |-> FALSE, message |-> <<"Routing number is required">>]
    ELSE IF Len(StripNonDigits(routingNumber)) < 9
    THEN [isValid |-> FALSE, message |-> <<"Routing number must be exactly 9 digits">>]
    ELSE [isValid |-> TRUE, message |-> <<>>]

\* validateRoutingNumber(routingNumber)
validateRoutingNumber(routingNumber) ==
    LET cleanRouting == StripNonDigits(routingNumber)
    IN  IF routingNumber = <<>>
        THEN [isValid |-> FALSE, message |-> <<"Routing number is required">>]
        ELSE IF Len(cleanRouting) # 9
        THEN [isValid |-> FALSE, message |-> <<"Routing number must be exactly 9 digits">>]
        ELSE [isValid |-> TRUE, message |-> <<>>]

formatTIN_keep(tin) == tin

formatTIN_slash(tin) ==
    LET cleanTIN == StripNonDigits(tin)
    IN  IF Len(cleanTIN) = 9
        THEN SubSeq(cleanTIN, 1, 2) \o <<"/">> \o SubSeq(cleanTIN, 3, Len(cleanTIN))
        ELSE tin

\* formatTIN(tin): `${cleanTIN.slice(0, 2)}-${cleanTIN.slice(2)}` for nine digits
formatTIN(tin) ==
    LET cleanTIN == StripNonDigits(tin)
    IN  IF Len(cleanTIN) = 9
        THEN SubSeq(cleanTIN, 1, 2) \o <<"-">> \o SubSeq(cleanTIN, 3, Len(cleanTIN))
        ELSE tin

\* -------------------------------------------------- FormValidationEngine
\* A field of the form, as the handlers read it: minLength and maxLength are -1
\* when the attribute is absent; group says the field is inside a .form-group,
\* control that it has the class form-control.
Field(name, type, required, minLength, maxLength, group, control) ==
    [name |-> name, type |-> type, required |-> required, minLength |-> minLength,
     maxLength |-> maxLength, group |-> group, control |-> control]

LoginForm ==
    [fields |-> << Field("email", "email", TRUE, -1, -1, TRUE, TRUE),
                   Field("password", "password", TRUE, -1, -1, TRUE, TRUE) >>,
     method |-> "post"]

ProfileForm ==
    [fields |-> << Field("username", "text", FALSE, 4, 6, TRUE, TRUE),
                   Field("confirm_password", "password", FALSE, -1, -1, TRUE, TRUE) >>,
     method |-> "post"]

Forms == {LoginForm, ProfileForm}

FieldIds(f) == 1..Len(f.fields)

\* What the user may type.
Values ==
    { <<>>,
      <<" ">>,
      <<"a", "b", "c">>,
      <<"a", "@", "b", ".", "c">>,
      <<"A", "b", "c", "d", "1", "2", "3", "!">> }

\* An array of strings, as validateForm and the server's error payload give one
Array(items) == [k |-> "array", s |-> <<>>, items |-> items]

\* FormData.get(name): the value of the first field of that name, or null
FormDataGet(f, vals, name) ==
    IF \E i \in FieldIds(f) : f.fields[i].name = name
    THEN Str(vals[CHOOSE i \in FieldIds(f) :
                    /\ f.fields[i].name = name
                    /\ \A j \in FieldIds(f) : f.fields[j].name = name => i <= j])
    ELSE Null

FieldErrors_lengthFirst(field, v) ==
    (IF field.minLength # 0 /\ field.minLength > 0 /\ Truthy(v)
        /\ Len(v.s) < field.minLength
     THEN << <<field.name, " must be at least ", ToString(field.minLength),
               " characters">> >>
     ELSE <<>>)
    \o (IF field.required /\ (~Truthy(v) \/ Trim(v.s) = <<>>)
        THEN << <<field.name, " is required">> >> ELSE <<>>)
    \o (IF field.type = "email" /\ Truthy(v) /\ ~isValidEmail(v.s)
        THEN << <<"Please enter a valid email address">> >> ELSE <<>>)
    \o (IF field.type = "password" /\ Truthy(v) /\ ~validatePassword(v.s).isValid
        THEN validatePassword(v.s).feedback ELSE <<>>)
    \o (IF field.maxLength # 0 /\ field.maxLength > 0 /\ Truthy(v)
           /\ Len(v.s) > field.maxLength
        THEN << <<field.name, " must be no more than ", ToString(field.maxLength),
                  " characters">> >>
        ELSE <<>>)

\* validateForm(), lines 444-472: the errors of one field, for its form value
FieldErrors(field, v) ==
    (IF field.required /\ (~Truthy(v) \/ Trim(v.s) = <<>>)
     THEN << <<field.name, " is required">> >> ELSE <<>>)
    \o (IF field.type = "email" /\ Truthy(v) /\ ~isValidEmail(v.s)
        THEN << <<"Please enter a valid email address">> >> ELSE <<>>)
    \o (IF field.type = "password" /\ Truthy(v) /\ ~validatePassword(v.s).isValid
        THEN validatePassword(v.s).feedback ELSE <<>>)
    \o (IF field.minLength # 0 /\ field.minLength > 0 /\ Truthy(v)
           /\ Len(v.s) < field.minLength
        THEN << <<field.name, " must be at least ", ToString(field.minLength),
                  " characters">> >>
        ELSE <<>>)
    \o (IF field.maxLength # 0 /\ field.maxLength > 0 /\ Truthy(v)
           /\ Len(v.s) > field.maxLength
        THEN << <<field.name, " must be no more than ", ToString(field.maxLength),
                  " characters">> >>
        ELSE <<>>)

\* validateForm() of src/unnamed/part_001, lines 341-369: as FieldErrors, but
\* the length rules test field.minLength and field.maxLength for truthiness only
FieldErrors001(field, v) ==
    (IF field.required /\ (~Truthy(v) \/ Trim(v.s) = <<>>)
     THEN << <<field.name, " is required">> >> ELSE <<>>)
    \o (IF field.type = "email" /\ Truthy(v) /\ ~isValidEmail(v.s)
        THEN << <<"Please enter a valid email address">> >> ELSE <<>>)
    \o (IF field.type = "password" /\ Truthy(v) /\ ~validatePassword(v.s).isValid
        THEN validatePassword(v.s).feedback ELSE <<>>)
    \o (IF field.minLength # 0 /\ Truthy(v) /\ Len(v.s) < field.minLength
        THEN << <<field.name, " must be at least ", ToString(field.minLength),
                  " characters">> >>
        ELSE <<>>)
    \o (IF field.maxLength # 0 /\ Truthy(v) /\ Len(v.s) > field.maxLength
        THEN << <<field.name, " must be no more than ", ToString(field.maxLength),
                  " characters">> >>
        ELSE <<>>)

validateForm_everyField(f, vals) ==
    LET errs(i) == FieldErrors(f.fields[i], FormDataGet(f, vals, f.fields[i].name))
        errors == [n \in {f.fields[i].name : i \in FieldIds(f)} |->
                      Array(errs(CHOOSE i \in FieldIds(f) : f.fields[i].name = n))]
    IN  [isValid |-> \A n \in DOMAIN errors : errors[n].items = <<>>, errors |-> errors]

validateForm_isValid(f, vals) ==
    LET errs(i) == FieldErrors(f.fields[i], FormDataGet(f, vals, f.fields[i].name))
        failing == {i \in FieldIds(f) : Len(errs(i)) > 0}
    IN  [isValid |-> TRUE,
         errors |-> [n \in {f.fields[i].name : i \in failing} |->
                        Array(errs(CHOOSE i \in failing : f.fields[i].name = n))]]

\* validateForm(form): errors[field.name] is assigned for each field, in document
\* order, that has errors; a later field of the same name overwrites.
validateForm(f, vals) ==
    LET errs(i) == FieldErrors(f.fields[i], FormDataGet(f, vals, f.fields[i].name))
        failing == {i \in FieldIds(f) : Len(errs(i)) > 0}
        names == {f.fields[i].name : i \in failing}
        last(n) == CHOOSE i \in failing :
                      /\ f.fields[i].name = n
                      /\ \A j \in failing : f.fields[j].name = n => j <= i
        errors == [n \in names |-> Array(errs(last(n)))]
    IN  [isValid |-> DOMAIN errors = {}, errors |-> errors]

\* The value of document.querySelector('input[name="password"]'), if there is one
PasswordFieldValue(f, vals) == FormDataGet(f, vals, "password")

\* validateField(), lines 168-187: the message, "" for none
FieldMessage(field, trimmed, f, vals) ==
    IF field.required /\ trimmed = <<>> THEN <<"This field is required">>
    ELSE IF field.type = "password" /\ trimmed # <<>>
    THEN IF ~validatePassword(trimmed).isValid
         THEN validatePassword(trimmed).feedback[1] ELSE <<>>
    ELSE IF field.name = "confirm_password" /\ trimmed # <<>>
    THEN IF PasswordFieldValue(f, vals).k = "str"
            /\ trimmed # PasswordFieldValue(f, vals).s
         THEN <<"Passwords do not match">> ELSE <<>>
    ELSE <<>>

validateField_keep(f, vals, i, divs, flag) ==
    LET field == f.fields[i]
        trimmed == Trim(vals[i])
        message == FieldMessage(field, trimmed, f, vals)
    IN  IF ~field.group \/ message = <<>> THEN [divs |-> divs, flag |-> flag]
        ELSE [divs |-> <<message>>, flag |-> TRUE]

\* validateField(e) on field i: its group's error elements and has-error class after
validateField(f, vals, i, divs, flag) ==
    LET field == f.fields[i]
        trimmed == Trim(vals[i])
        cleared == IF divs = <<>> THEN divs ELSE Tail(divs)
        message == FieldMessage(field, trimmed, f, vals)
    IN  IF ~field.group THEN [divs |-> divs, flag |-> flag]
        ELSE IF trimmed = <<>> /\ ~field.required THEN [divs |-> cleared, flag |-> FALSE]
        ELSE IF message # <<>> THEN [divs |-> Append(cleared, message), flag |-> TRUE]
        ELSE [divs |-> cleared, flag |-> FALSE]

\* ---- debounce(func, wait, immediate): the closure variable timeout and the
\* timers it set, for one listener
DebounceWait == 500

NoTimers == [h \in 1..MaxTimers |-> -1]

clearTimeout(tm, h) == IF h \in DOMAIN tm THEN [tm EXCEPT ![h] = -1] ELSE tm

FreeHandle(tm) ==
    CHOOSE h \in DOMAIN tm : tm[h] = -1 /\ \A g \in DOMAIN tm : g < h => tm[g] # -1

executedFunction_noClear(tm, to, wait, immediate) ==
    [timers |-> [tm EXCEPT ![FreeHandle(tm)] = wait],
     timeout |-> FreeHandle(tm),
     callNow |-> immediate /\ to = 0]

\* executedFunction(...args), lines 28-31: [timers, timeout, callNow]
executedFunction(tm, to, wait, immediate) ==
    LET cleared == clearTimeout(tm, to)
    IN  [timers |-> [cleared EXCEPT ![FreeHandle(cleared)] = wait],
         timeout |-> FreeHandle(cleared),
         callNow |-> immediate /\ to = 0]

Pending(tm) == \E h \in DOMAIN tm : tm[h] >= 0

NoHistory ==
    [events |-> 0, runs |-> 0, since |-> 0, last |-> <<>>, ran |-> Undef,
     ranSince |-> 0, checked |-> FALSE, blurred |-> FALSE]

FieldsInit(f) ==
    /\ form = f
    /\ value = [i \in FieldIds(f) |-> <<>>]
    /\ errorDivs = [i \in FieldIds(f) |-> <<>>]
    /\ hasError = [i \in FieldIds(f) |-> FALSE]
    /\ timers = [i \in FieldIds(f) |-> NoTimers]
    /\ timeout = [i \in FieldIds(f) |-> 0]
    /\ hist = [i \in FieldIds(f) |-> NoHistory]

\* -------------------------------------------------------- token source
\* Token atoms: "m", "n" in the meta tag, "t", "u" in the cookie.  "=" and the
\* percent escapes are the characters getCSRFToken's parsing treats specially.
MetaStates ==
    { [present |-> FALSE, content |-> Null],
      [present |-> TRUE, content |-> Null],         \* <meta name="csrf-token">
      [present |-> TRUE, content |-> Str(<<>>)],    \* content=""
      [present |-> TRUE, content |-> Str(<<"m">>)],
      [present |-> TRUE, content |-> Str(<<"n">>)] }

Cookie(n, v) == [name |-> n, value |-> v]

CookieJars ==
    { <<>>,
      <<Cookie(<<"sid">>, <<"u">>)>>,
      <<Cookie(<<"csrf_token">>, <<"t">>)>>,
      <<Cookie(<<"sid">>, <<"u">>), Cookie(<<"csrf_token">>, <<"u">>)>>,
      <<Cookie(<<"csrf_token">>, <<>>)>>,
      <<Cookie(<<"csrf_token">>, <<"t", "%3D">>)>>,
      <<Cookie(<<"csrf_token">>, <<"t", "=">>)>>,
      <<Cookie(<<"csrf_token">>, <<"t", "%">>)>> }

CookiePair(c) == c.name \o <<"=">> \o c.value

RECURSIVE JoinCookies(_)
JoinCookies(jar) ==
    IF jar = <<>> THEN <<>>
    ELSE IF Len(jar) = 1 THEN CookiePair(jar[1])
    ELSE CookiePair(jar[1]) \o <<";", " ">> \o JoinCookies(Tail(jar))

\* document.cookie: the store as "name=value; name=value"
documentCookie(jar) == JoinCookies(jar)

\* decodeURIComponent(v): escapes are decoded, a "%" that opens no escape throws
\* URIError, and undefined is first converted to the string "undefined".
decodeURIComponent(v) ==
    LET UnescapeAtom(a) == IF a = "%3D" THEN "=" ELSE a
    IN
    IF v.k = "undef" THEN [threw |-> FALSE, val |-> Str(<<"undefined">>)]
    ELSE IF Includes(v.s, "%") THEN [threw |-> TRUE, val |-> Null]
    ELSE [threw |-> FALSE, val |-> Str([i \in 1..Len(v.s) |-> UnescapeAtom(v.s[i])])]

RECURSIVE CookieScan(_)
CookieScan(cookies) ==
    IF cookies = <<>> THEN [threw |-> FALSE, val |-> Null]
    ELSE LET parts == Split(Trim(Head(cookies)), "=")
             cname == parts[1]
             cvalue == IF Len(parts) >= 2 THEN Str(parts[2]) ELSE Undef
         IN  IF cname = <<"csrf_token">> THEN decodeURIComponent(cvalue)
             ELSE CookieScan(Tail(cookies))

\* FinBotAPI.getCSRFToken(): [threw, val]
getCSRFToken(m, jar) ==
    IF m.present THEN [threw |-> FALSE, val |-> m.content]
    ELSE CookieScan(Split(documentCookie(jar), ";"))

\* ------------------------------------------------------- RequestClient
NoHeaders == [h \in {} |-> <<>>]

\* this.defaultHeaders
defaultHeaders == [h \in {"Content-Type"} |-> <<"application/json">>]

Spread_firstWins(a, b) ==
    [h \in DOMAIN a \cup DOMAIN b |-> IF h \in DOMAIN a THEN a[h] ELSE b[h]]

\* { ...a, ...b }
Spread(a, b) ==
    [h \in DOMAIN a \cup DOMAIN b |-> IF h \in DOMAIN b THEN b[h] ELSE a[h]]

SetHeader(hs, name, v) ==
    [h \in DOMAIN hs \cup {name} |-> IF h = name THEN v ELSE hs[h]]

RemoveHeader(hs, name) == [h \in DOMAIN hs \ {name} |-> hs[h]]

\* options of request(): method "undef" stands for an absent method.
Options(method, headers, body) ==
    [method |-> method, headers |-> headers, body |-> body]

\* request(), lines 42-54: the merged headers, or the exception of getCSRFToken
RequestHeaders(options, m, jar) ==
    LET merged == Spread(defaultHeaders, options.headers)
        nonGet == options.method # "undef" /\ options.method # "GET"
        tok == getCSRFToken(m, jar)
    IN  IF nonGet /\ tok.threw THEN [threw |-> TRUE, headers |-> NoHeaders]
        ELSE IF nonGet /\ Truthy(tok.val)
        THEN [threw |-> FALSE, headers |-> SetHeader(merged, "X-CSRF-Token", tok.val.s)]
        ELSE [threw |-> FALSE, headers |-> merged]

\* ---- responses
StatusText(status) ==
    CASE status = 200 -> "OK"
      [] status = 401 -> "Unauthorized"
      [] status = 404 -> "Not Found"
      [] status = 422 -> "Unprocessable Entity"
      [] OTHER -> "Internal Server Error"

\* A decoded body: an object (with its message field), null, or a string.
NoErrorMap == [n \in {} |-> <<>>]
NoErrors == [k |-> "undef", map |-> NoErrorMap]
ErrorsObject(map) == [k |-> "object", map |-> map]

DataObject(message, errors, redirect) ==
    [k |-> "object", message |-> message, errors |-> errors, redirect |-> redirect,
     text |-> <<>>]
DataNull ==
    [k |-> "null", message |-> Undef, errors |-> NoErrors, redirect |-> Undef,
     text |-> <<>>]
DataString(text) ==
    [k |-> "string", message |-> Undef, errors |-> NoErrors, redirect |-> Undef,
     text |-> text]

JsError(name, message) == [name |-> name, message |-> message]
NoError == JsError("none", Undef)

\* JSON.parse of the body, as response.json() does it
JSONParse(body) ==
    CASE body = "{message:bad}" ->
             [threw |-> FALSE, data |-> DataObject(Str(<<"bad">>), NoErrors, Undef)]
      [] body = "{message:}" ->
             [threw |-> FALSE, data |-> DataObject(Str(<<>>), NoErrors, Undef)]
      [] body = "{}" -> [threw |-> FALSE, data |-> DataObject(Undef, NoErrors, Undef)]
      [] body = "{errors:{email:[taken]}}" ->
             [threw |-> FALSE,
              data |-> DataObject(Undef,
                          ErrorsObject([n \in {"email"} |-> Array(<< <<"taken">> >>)]),
                          Undef)]
      [] body = "{redirect:/home}" ->
             [threw |-> FALSE, data |-> DataObject(Undef, NoErrors, Str(<<"/home">>))]
      [] body = "null" -> [threw |-> FALSE, data |-> DataNull]
      [] OTHER -> [threw |-> TRUE, data |-> DataNull]

\* response.text(): UTF-8 decoding, which replaces bytes that are not UTF-8
BodyText(body) == IF body = "0xFF0xFE" THEN <<"U+FFFD", "U+FFFD">> ELSE <<body>>

Response(status, contentType, body) ==
    [net |-> "response", error |-> NoError, status |-> status,
     contentType |-> contentType, body |-> body]

TransportFailure(error) ==
    [net |-> "failed", error |-> error, status |-> 0, contentType |-> Null, body |-> "null"]

NoResponse == [net |-> "none", error |-> NoError, status |-> 0, contentType |-> Null, body |-> "null"]

\* What the server sent.  A body is named by its bytes; JSONParse and BodyText
\* say what response.json() and response.text() make of them.
Responses ==
    LET Statuses == {200, 401, 404, 422, 500}
        ContentTypes ==
            { Null,
              Str(<<"text/plain">>),
              Str(<<"application/json">>),
              Str(<<"application/json", ";", " ", "charset=utf-8">>) }
        Bodies == {"{message:bad}", "{message:}", "{}", "null", "{oops", "hello", "0xFF0xFE"}
        TransportErrors ==
            { JsError("TypeError", Str(<<"Failed to fetch">>)), JsError("Error", Str(<<>>)) }
    IN
    { Response(s, ct, b) : s \in Statuses, ct \in ContentTypes, b \in Bodies }
    \cup { TransportFailure(e) : e \in TransportErrors }

\* response.ok
Ok(resp) == resp.status >= 200 /\ resp.status <= 299

\* request(), lines 66-73: [threw, error, data]
DecodeBody(resp) ==
    IF Truthy(resp.contentType) /\ Includes(resp.contentType.s, "application/json")
    THEN LET p == JSONParse(resp.body)
         IN  [threw |-> p.threw,
              error |-> IF p.threw THEN JsError("SyntaxError", Str(<<"Unexpected token">>))
                        ELSE NoError,
              data |-> p.data]
    ELSE [threw |-> FALSE, error |-> NoError, data |-> DataString(BodyText(resp.body))]

Success(data, status) ==
    [kind |-> "Success", message |-> Undef, status |-> status, data |-> data]

\* An exception that is no APIError leaving request()
Escaped(error) ==
    [kind |-> error.name, message |-> error.message, status |-> 0, data |-> DataNull]

NoOutcome == [kind |-> "none", message |-> Undef, status |-> 0, data |-> DataNull]

GenericMessage(resp) ==
    Str(<<"HTTP ", ToString(resp.status), ": ", StatusText(resp.status)>>)

\* request(), lines 88-99: the catch block, for an error that is no APIError
Caught(error) ==
    APIError(OrElse(error.message, Str(<<"Network error occurred">>)), 0, DataNull)

\* request(), lines 62-99: the outcome of the call for what fetch() settled with
RequestOutcome(resp) ==
    IF resp.net = "failed" THEN Caught(resp.error)
    ELSE LET dec == DecodeBody(resp)
         IN  IF dec.threw THEN Caught(dec.error)
             ELSE IF ~Ok(resp)
             THEN IF dec.data.k = "null"
                  \* data.message on null throws TypeError inside the try block
                  THEN Caught(JsError("TypeError",
                                      Str(<<"Cannot read properties of null">>)))
                  ELSE APIError(OrElse(dec.data.message, GenericMessage(resp)),
                                resp.status, dec.data)
             ELSE Success(dec.data, resp.status)

\* ---- the public methods: the options each hands to request()

\* The options each wrapper hands to request(); uploadHeaders is upload(),
\* lines 148-149
OptionsOf(op) ==
    LET uploadHeaders == RemoveHeader(Spread(defaultHeaders, NoHeaders), "Content-Type")
    IN
    CASE op = "get" -> Options("GET", NoHeaders, "none")
      [] op = "post" -> Options("POST", NoHeaders, "json")
      [] op = "put" -> Options("PUT", NoHeaders, "json")
      [] op = "delete" -> Options("DELETE", NoHeaders, "none")
      [] op = "upload" -> Options("POST", uploadHeaders, "formData")
      [] op = "download" -> Options("GET", NoHeaders, "none")

Invocations ==
    LET CallerHeaders ==
            { NoHeaders,
              [h \in {"X-Request-Id"} |-> <<"r1">>],
              [h \in {"Content-Type"} |-> <<"text/plain">>] }
        WrapperOps == {"get", "post", "put", "delete", "upload", "download"}
        \* What a caller of request() itself may pass.
        DirectOptions ==
            { Options(m, h, b) : m \in {"undef", "GET", "POST"}, h \in CallerHeaders,
                                 b \in {"none", "json"} }
    IN
    { [op |-> op, options |-> OptionsOf(op)] : op \in WrapperOps }
    \cup { [op |-> "request", options |-> o] : o \in DirectOptions }

\* fetch() rejects a GET (or method-less) request that has a body, with a TypeError,
\* before anything is sent.
FetchRefuses(options) == options.method \in {"undef", "GET"} /\ options.body # "none"

\* String(value), as new Blob([data]) converts a part that is no string
BlobText(data) ==
    CASE data.k = "string" -> data.text
      [] data.k = "null" -> <<"null">>
      [] OTHER -> <<"[object Object]">>

\* download(), lines 166-175: what is saved; nothing when request() threw
DownloadSaved(outcome) ==
    IF outcome.kind = "Success" THEN Str(BlobText(outcome.data)) ELSE Undef

NoWire == [sent |-> FALSE, method |-> "undef", headers |-> NoHeaders, body |-> "none"]

IdleCall ==
    [pc |-> "idle", op |-> "none", method |-> "undef", given |-> NoHeaders,
     fetches |-> 0, resp |-> NoResponse,
     outcome |-> NoOutcome, saved |-> Undef]

Finished(call, resp, outcome) ==
    [call EXCEPT !.pc = "done", !.resp = resp, !.outcome = outcome,
                 !.saved = IF call.op = "download" THEN DownloadSaved(outcome) ELSE Undef]

\* request(), lines 40-63, up to the await: the call is over before anything is
\* sent (early, with its outcome), or fetch() has the request; fetches counts the
\* calls of fetch(), which is called once unless getCSRFToken threw before it
RequestStart(options, m, jar) ==
    LET rh == RequestHeaders(options, m, jar)
    IN  IF rh.threw
        THEN [early |-> TRUE, headers |-> NoHeaders, fetches |-> 0,
              outcome |-> Escaped(JsError("URIError", Str(<<"URI malformed">>)))]
        ELSE IF FetchRefuses(options)
        THEN [early |-> TRUE, headers |-> NoHeaders, fetches |-> 1,
              outcome |-> Caught(JsError("TypeError",
                              Str(<<"Request with GET/HEAD method cannot have body">>)))]
        ELSE [early |-> FALSE, headers |-> rh.headers, fetches |-> 1, outcome |-> NoOutcome]

Sent(options, headers) ==
    [sent |-> TRUE, method |-> options.method, headers |-> headers, body |-> options.body]

\* A method of the client is called: the synchronous part of request().
Invoke(c, inv) ==
    LET start == RequestStart(inv.options, meta, cookieJar)
        started == [IdleCall EXCEPT !.op = inv.op, !.method = inv.options.method,
                                    !.given = inv.options.headers,
                                    !.fetches = start.fetches]
    IN  /\ calls[c].pc = "idle"
        /\ IF start.early
           THEN /\ calls' = [calls EXCEPT ![c] = Finished(started, NoResponse, start.outcome)]
                /\ UNCHANGED wire
           ELSE /\ calls' = [calls EXCEPT ![c] =
                       [started EXCEPT !.pc = "fetch"]]
                /\ wire' = [wire EXCEPT ![c] = Sent(inv.options, start.headers)]
        /\ UNCHANGED <<meta, cookieJar, taxonomyVars, unitVars, fieldVars, pageVars, shellVars>>

\* fetch() settles: request() resumes after its await and finishes.
Settle(c, resp) ==
    /\ calls[c].pc = "fetch"
    /\ wire[c].sent
    /\ calls' = [calls EXCEPT ![c] = Finished(calls[c], resp, RequestOutcome(resp))]
    /\ wire' = [wire EXCEPT ![c] = NoWire]
    /\ UNCHANGED <<meta, cookieJar, taxonomyVars, unitVars, fieldVars, pageVars, shellVars>>

\* The caller has taken the outcome.
Return(c) ==
    /\ calls[c].pc = "done"
    /\ calls' = [calls EXCEPT ![c] = IdleCall]
    /\ UNCHANGED <<meta, cookieJar, wire, taxonomyVars, unitVars, fieldVars, pageVars, shellVars>>

\* The page or the server replaces the token: the meta tag, or the cookie.
SetMeta(m) ==
    /\ meta' = m
    /\ UNCHANGED <<cookieJar, calls, wire, taxonomyVars, unitVars, fieldVars, pageVars, shellVars>>

SetCookies(jar) ==
    /\ cookieJar' = jar
    /\ UNCHANGED <<meta, calls, wire, taxonomyVars, unitVars, fieldVars, pageVars, shellVars>>

\* ------------------------------------------------------------ the page
\* textContent, disabled and the loading class of the submit button
Button(loading, text, disabled) ==
    [loading |-> loading, text |-> text, disabled |-> disabled]

SubmitButton == Button(FALSE, <<"Sign in">>, FALSE)

\* showLoading(element, text): the element after, and the originalText its
\* closure captured
showLoading(element, text) ==
    [element |-> Button(TRUE, text, TRUE), originalText |-> Str(element.text)]

\* The closure showLoading returned, run on the element as it is then
hideLoadingRun(element, originalText) == Button(FALSE, originalText.s, FALSE)

AlertDuration == 5000

\* showAlert(message, type, duration): the alert becomes the first child; its
\* timer is -1 when none was set
showAlert_timerFromZero(as, message, type, duration) ==
    << [message |-> message, type |-> type,
        timer |-> IF duration >= 0 THEN duration ELSE -1] >> \o as

showAlert(as, message, type, duration) ==
    << [message |-> message, type |-> type,
        timer |-> IF duration > 0 THEN duration ELSE -1] >> \o as

Remove(as, k) == SubSeq(as, 1, k - 1) \o SubSeq(as, k + 1, Len(as))

handleAPIError_alwaysRedirect(error, redirectOnAuth, alert, as, loc) ==
    IF isAuthError(error) THEN [location |-> "/login", alerts |-> as]
    ELSE LET message == OrElse(OrElse(error.data.message, error.message),
                               Str(<<"An error occurred">>))
         IN  [location |-> loc,
              alerts |-> IF alert THEN showAlert(as, message.s, "danger", AlertDuration)
                         ELSE as]

\* handleAPIError(error, options): where the window goes and the alerts after
handleAPIError(error, redirectOnAuth, alert, as, loc) ==
    IF isAuthError(error) /\ redirectOnAuth THEN [location |-> "/login", alerts |-> as]
    ELSE LET message == OrElse(OrElse(error.data.message, error.message),
                               Str(<<"An error occurred">>))
         IN  [location |-> loc,
              alerts |-> IF alert THEN showAlert(as, message.s, "danger", AlertDuration)
                         ELSE as]

\* clearFormErrors(form)
clearFormErrors(f) ==
    [divs |-> [i \in FieldIds(f) |-> <<>>], flags |-> [i \in FieldIds(f) |-> FALSE]]

\* displayFormErrors(form, errors): the error elements and has-error classes
\* after.  QueryName is form.querySelector('[name=...]'), the first field of
\* that name; ErrorText is Array.isArray(fieldErrors) ? fieldErrors[0] :
\* fieldErrors, as text content.
displayFormErrors(f, errors) ==
    LET QueryName(n) ==
            CHOOSE i \in FieldIds(f) :
                f.fields[i].name = n /\ \A j \in FieldIds(f) : f.fields[j].name = n => i <= j
        ErrorText(fe) ==
            IF fe.k = "array" THEN (IF fe.items = <<>> THEN <<>> ELSE fe.items[1]) ELSE fe.s
        marked(i) == /\ f.fields[i].name \in DOMAIN errors
                     /\ i = QueryName(f.fields[i].name)
                     /\ f.fields[i].group
    IN  [divs |-> [i \in FieldIds(f) |->
                      IF marked(i) THEN Append(clearFormErrors(f).divs[i],
                                               ErrorText(errors[f.fields[i].name]))
                      ELSE clearFormErrors(f).divs[i]],
         flags |-> [i \in FieldIds(f) |-> marked(i)]]

\* form.method.toUpperCase()
toUpperCase(method) == IF method = "get" THEN "GET" ELSE "POST"

\* submitForm(form, options), lines 224-245: the options it hands to request()
submitForm(f, json) ==
    Options(toUpperCase(f.method),
            IF json THEN [h \in {"Content-Type"} |-> <<"application/json">>] ELSE NoHeaders,
            IF json THEN "json" ELSE "formData")

\* submitForm(form, {json: true}), lines 240-246: the options it hands to request()
SubmitOptions(f) ==
    Options(toUpperCase(f.method),
            [h \in {"Content-Type"} |-> <<"application/json">>], "json")

\* handleAuthSubmit, lines 129-140: what follows the await, for the outcome of
\* submitForm.  An exception raised here leaves the handler through finally.
AfterSubmit(outcome, f, divs, flags, as, loc) ==
    LET same == [divs |-> divs, flags |-> flags, alerts |-> as, location |-> loc]
    IN  CASE outcome.kind = "Success" ->
               IF outcome.data.k = "null" THEN same
               ELSE IF Truthy(outcome.data.redirect)
               THEN [same EXCEPT !.location = outcome.data.redirect.s[1]]
               ELSE [same EXCEPT !.location = "reload"]
          [] outcome.kind = "APIError" ->
               IF isValidationError(outcome) /\ outcome.data.errors.k = "object"
               THEN [same EXCEPT !.divs = displayFormErrors(f, outcome.data.errors.map).divs,
                                 !.flags = displayFormErrors(f, outcome.data.errors.map).flags]
               ELSE LET h == handleAPIError(outcome, FALSE, TRUE, as, loc)
                    IN  [same EXCEPT !.alerts = h.alerts, !.location = h.location]
          [] OTHER -> same

NoResult ==
    [fn |-> "none", isValid |-> FALSE, score |-> 0, feedback |-> <<>>, message |-> <<>>,
     errors |-> NoErrorMap, value |-> <<>>, from |-> "none", arg |-> <<>>]

NoHandling == [by |-> "none", redirectOnAuth |-> TRUE, showAlert |-> TRUE]

\* A notice: an alert made by showAlert, whether it is in the document, what is
\* left of its timer (-1 for no timer or a timer that has fired), and by whom
\* and how often it was removed
NoNotice ==
    [state |-> "none", duration |-> 0, left |-> -1, removals |-> 0, by |-> "none"]

UnitInit ==
    /\ input = <<>>
    /\ result = NoResult
    /\ handled = NoHandling
    /\ pathname = <<"/">>
    /\ localStorage = Null
    /\ documentBody = [modals |-> 0, overflow |-> ""]
    /\ gate = [readyState |-> "complete", stage |-> "start", listener |-> FALSE,
               decisions |-> <<>>]
    /\ notices = [n \in 1..MaxNotices |-> NoNotice]

PageInit ==
    LET NoSubmit ==
            [tick |-> 0, happened |-> FALSE, requested |-> FALSE]
    IN
    /\ button = SubmitButton
    /\ hideLoading = [c \in CallIds |-> Undef]
    /\ alerts = <<>>
    /\ location = "page"
    /\ submitted = NoSubmit

NoFailure == APIError(Undef, 0, DataNull)

NoCategory == [asked |-> FALSE, auth |-> FALSE, validation |-> FALSE, server |-> FALSE]

Init ==
    /\ meta \in MetaStates
    /\ cookieJar \in CookieJars
    /\ calls = [c \in CallIds |-> IdleCall]
    /\ wire = [c \in CallIds |-> NoWire]
    /\ failure = NoFailure
    /\ category = NoCategory
    /\ FieldsInit(LoginForm)
    /\ PageInit
    /\ UnitInit

\* One call at a time, over every invocation and every response.
Next ==
    \/ \E c \in CallIds, inv \in Invocations :
          (\A d \in CallIds : calls[d].pc = "idle") /\ Invoke(c, inv)
    \/ \E c \in CallIds, json \in BOOLEAN :
          /\ \A d \in CallIds : calls[d].pc = "idle"
          /\ Invoke(c, [op |-> "submitForm", options |-> submitForm(form, json)])
    \/ \E c \in CallIds, resp \in Responses : Settle(c, resp)
    \/ \E c \in CallIds : Return(c)
    \/ \E m \in MetaStates : SetMeta(m)
    \/ \E jar \in CookieJars : SetCookies(jar)

Spec == Init /\ [][Next]_vars

\* ---- the taxonomy on its own: any status code, classified
Raise(status) ==
    /\ failure' = APIError(Str(<<"failed">>), status, DataNull)
    /\ category' = NoCategory
    /\ UNCHANGED <<clientVars, fieldVars, pageVars, unitVars, shellVars>>

Classify ==
    /\ ~category.asked
    /\ category' = [asked |-> TRUE, auth |-> isAuthError(failure),
                    validation |-> isValidationError(failure),
                    server |-> isServerError(failure)]
    /\ UNCHANGED <<clientVars, failure, fieldVars, pageVars, unitVars, shellVars>>

InitTaxonomy ==
    /\ meta = [present |-> FALSE, content |-> Null]
    /\ cookieJar = <<>>
    /\ calls = [c \in CallIds |-> IdleCall]
    /\ wire = [c \in CallIds |-> NoWire]
    /\ failure \in {APIError(Str(<<"failed">>), s, DataNull) : s \in 0..MaxStatus}
    /\ category = NoCategory
    /\ FieldsInit(LoginForm)
    /\ PageInit
    /\ UnitInit

NextTaxonomy ==
    \/ \E s \in 0..MaxStatus : Raise(s)
    \/ Classify

SpecTaxonomy == InitTaxonomy /\ [][NextTaxonomy]_vars

\* ---- the listeners initializeForms() binds to a .form-control field
Min(a, b) == IF a < b THEN a ELSE b

Ran(i) ==
    validateField(form, value', i, errorDivs[i], hasError[i])

\* validateField(e) runs on field i, for a blur or for the debounced input
RunValidateField(i) ==
    /\ errorDivs' = [errorDivs EXCEPT ![i] = Ran(i).divs]
    /\ hasError' = [hasError EXCEPT ![i] = Ran(i).flag]

\* The user edits field i: the input event calls the debounced validateField.
Input(i, v) ==
    LET field == form.fields[i]
        d == executedFunction(timers[i], timeout[i], DebounceWait, FALSE)
        fresh == ~Pending(timers[i])
    IN  /\ v # value[i]
        /\ \E h \in 1..MaxTimers : timers[i][h] = -1
        /\ value' = [value EXCEPT ![i] = v]
        /\ IF field.control
           THEN /\ timers' = [timers EXCEPT ![i] = d.timers]
                /\ timeout' = [timeout EXCEPT ![i] = d.timeout]
                /\ IF d.callNow
                   THEN RunValidateField(i)
                   ELSE UNCHANGED <<errorDivs, hasError>>
           ELSE UNCHANGED <<timers, timeout, errorDivs, hasError>>
        /\ hist' = IF ~field.control THEN hist ELSE [hist EXCEPT ![i] =
               [@ EXCEPT !.events = IF fresh THEN 1 ELSE Min(@ + 1, MaxEvents),
                         !.runs = IF fresh THEN 0 ELSE @,
                         !.ran = IF fresh THEN Undef ELSE @,
                         !.ranSince = IF fresh THEN 0 ELSE @,
                         !.since = 0,
                         !.last = v,
                         !.blurred = FALSE]]
        /\ UNCHANGED <<form, clientVars, taxonomyVars, unitVars, pageVars, shellVars>>

\* Field i loses focus.
Blur(i) ==
    /\ form.fields[i].control
    /\ value' = value
    /\ RunValidateField(i)
    /\ hist' = [hist EXCEPT ![i] = [@ EXCEPT !.checked = TRUE, !.blurred = TRUE]]
    /\ UNCHANGED <<form, timers, timeout, clientVars, taxonomyVars, unitVars, pageVars, shellVars>>

\* Time passes until the next timer is due.
Tick ==
    LET left == ({timers[i][h] : i \in FieldIds(form), h \in 1..MaxTimers}
                 \cup {alerts[k].timer : k \in 1..Len(alerts)}) \ {-1, 0}
        d == CHOOSE x \in left : \A y \in left : x <= y
    IN  /\ left # {}
        /\ timers' = [i \in FieldIds(form) |->
                        [h \in 1..MaxTimers |->
                            IF timers[i][h] > 0 THEN timers[i][h] - d ELSE timers[i][h]]]
        /\ alerts' = [k \in 1..Len(alerts) |->
                        [alerts[k] EXCEPT !.timer = IF @ > 0 THEN @ - d ELSE @]]
        /\ hist' = [i \in FieldIds(form) |->
                        IF hist[i].events = 0 THEN hist[i]
                        ELSE [hist[i] EXCEPT !.since = Min(@ + d, DebounceWait)]]
        /\ UNCHANGED <<form, value, errorDivs, hasError, timeout, clientVars, taxonomyVars, unitVars,
                       button, hideLoading, location, submitted, shellVars>>

\* debounce's later(), lines 24-27: timer h of field i's listener is due and runs
TimerFires(i, h) ==
    /\ timers[i][h] = 0
    /\ timers' = [timers EXCEPT ![i][h] = -1]
    /\ timeout' = [timeout EXCEPT ![i] = 0]
    /\ value' = value
    /\ RunValidateField(i)
    /\ hist' = [hist EXCEPT ![i] =
           [@ EXCEPT !.runs = Min(@ + 1, 2), !.ran = Str(value[i]),
                     !.ranSince = hist[i].since, !.checked = TRUE]]
    /\ UNCHANGED <<form, clientVars, taxonomyVars, unitVars, pageVars, shellVars>>

ClientIdle ==
    /\ meta = [present |-> FALSE, content |-> Null]
    /\ cookieJar = <<>>
    /\ calls = [c \in CallIds |-> IdleCall]
    /\ wire = [c \in CallIds |-> NoWire]
    /\ failure = NoFailure
    /\ category = NoCategory

InitFields ==
    /\ ClientIdle
    /\ \E f \in Forms : FieldsInit(f)
    /\ PageInit
    /\ UnitInit

NextFields ==
    \/ \E i \in FieldIds(form), v \in Values : Input(i, v)
    \/ \E i \in FieldIds(form) : Blur(i)
    \/ Tick
    \/ \E i \in FieldIds(form), h \in 1..MaxTimers : TimerFires(i, h)

SpecFields == InitFields /\ [][NextFields]_vars

\* ---- the submit listener initializeForms() binds to an .auth-form
\* The user submits the form: handleAuthSubmit up to its await or, when it
\* has nothing to await, to its end.
Submit(c) ==
    LET validation == validateForm(form, value)
        shown == displayFormErrors(form, validation.errors)
        loading == showLoading(button, <<"Loading...">>)
        options == SubmitOptions(form)
        start == RequestStart(options, meta, cookieJar)
        after == AfterSubmit(start.outcome, form, errorDivs, hasError, alerts, location)
        event == [tick |-> 1 - submitted.tick, happened |-> TRUE,
                  requested |-> validation.isValid]
    IN  /\ calls[c].pc = "idle"
        /\ \A d \in CallIds : d < c => calls[d].pc # "idle"
        /\ submitted' = event
        /\ IF ~validation.isValid
           THEN /\ errorDivs' = shown.divs
                /\ hasError' = shown.flags
                /\ UNCHANGED <<calls, wire, button, hideLoading, alerts, location>>
           ELSE IF start.early
           THEN /\ errorDivs' = after.divs
                /\ hasError' = after.flags
                /\ alerts' = after.alerts
                /\ location' = after.location
                /\ button' = hideLoadingRun(loading.element, loading.originalText)
                /\ UNCHANGED <<calls, wire, hideLoading>>
           ELSE /\ calls' = [calls EXCEPT ![c] =
                       [IdleCall EXCEPT !.pc = "fetch", !.op = "submitForm",
                                        !.method = options.method,
                                        !.given = options.headers,
                                        !.fetches = start.fetches]]
                /\ wire' = [wire EXCEPT ![c] = Sent(options, start.headers)]
                /\ button' = loading.element
                /\ hideLoading' = [hideLoading EXCEPT ![c] = loading.originalText]
                /\ UNCHANGED <<errorDivs, hasError, alerts, location>>
        /\ UNCHANGED <<meta, cookieJar, taxonomyVars, unitVars, form, value, timers, timeout, hist, shellVars>>

\* fetch() settles for submit run c: request() finishes and handleAuthSubmit
\* resumes after its await and runs to its end.
SubmitSettles(c, resp) ==
    LET after == AfterSubmit(RequestOutcome(resp), form, errorDivs, hasError, alerts,
                             location)
    IN  /\ calls[c].pc = "fetch"
        /\ calls[c].op = "submitForm"
        /\ calls' = [calls EXCEPT ![c] = IdleCall]
        /\ wire' = [wire EXCEPT ![c] = NoWire]
        /\ errorDivs' = after.divs
        /\ hasError' = after.flags
        /\ alerts' = after.alerts
        /\ location' = after.location
        /\ button' = hideLoadingRun(button, hideLoading[c])
        /\ hideLoading' = [hideLoading EXCEPT ![c] = Undef]
        /\ UNCHANGED <<meta, cookieJar, taxonomyVars, unitVars, form, value, timers, timeout, hist,
                       submitted, shellVars>>

\* showAlert's timer, lines 310-314: alert k is removed when its time is up
AlertExpires(k) ==
    /\ alerts[k].timer = 0
    /\ alerts' = Remove(alerts, k)
    /\ UNCHANGED <<clientVars, taxonomyVars, unitVars, fieldVars, button, hideLoading, location,
                   submitted, shellVars>>

\* The user clicks the close button of alert k.
Dismiss(k) ==
    /\ alerts' = Remove(alerts, k)
    /\ UNCHANGED <<clientVars, taxonomyVars, unitVars, fieldVars, button, hideLoading, location,
                   submitted, shellVars>>

\* An auth form with plain inputs, and the same form without a method attribute
SignInForm ==
    [fields |-> << Field("email", "email", TRUE, -1, -1, TRUE, FALSE),
                   Field("password", "password", TRUE, -1, -1, TRUE, FALSE) >>,
     method |-> "post"]

\* What the server may answer to a submitted form
SubmitResponses ==
    { Response(200, Str(<<"application/json">>), b) :
        b \in {"{redirect:/home}", "{message:bad}", "null"} }
    \cup { Response(401, Str(<<"application/json">>), "{message:bad}") }
    \cup { Response(422, Str(<<"application/json">>), b) :
             b \in {"{errors:{email:[taken]}}", "{message:bad}"} }
    \cup { TransportFailure(JsError("TypeError", Str(<<"Failed to fetch">>))) }

InitSubmit ==
    LET SignInFormNoMethod == [SignInForm EXCEPT !.method = "get"]
        AuthForms == {SignInForm, SignInFormNoMethod}
        \* Where the page may have its token
        TokenSources ==
            { [meta |-> [present |-> TRUE, content |-> Str(<<"m">>)], jar |-> <<>>],
              [meta |-> [present |-> FALSE, content |-> Null],
               jar |-> << Cookie(<<"csrf_token">>, <<"t", "%">>) >>] }
    IN
    /\ \E ts \in TokenSources : meta = ts.meta /\ cookieJar = ts.jar
    /\ calls = [c \in CallIds |-> IdleCall]
    /\ wire = [c \in CallIds |-> NoWire]
    /\ failure = NoFailure
    /\ category = NoCategory
    /\ \E f \in AuthForms : FieldsInit(f)
    /\ PageInit
    /\ UnitInit

\* What the user may type into the auth form.
AuthValues == Values \ {<<"a", "b", "c">>}

OnPage == location = "page"

\* Everything happens while the page is still the one with the form, and an
\* alert is put up only while there is room for it.
NextSubmit ==
    \/ \E i \in FieldIds(form), v \in AuthValues : OnPage /\ Input(i, v)
    \/ \E c \in CallIds : OnPage /\ Len(alerts) < MaxAlerts /\ Submit(c)
    \/ \E c \in CallIds, resp \in SubmitResponses :
          OnPage /\ Len(alerts) < MaxAlerts /\ SubmitSettles(c, resp)
    \/ OnPage /\ Tick
    \/ \E k \in 1..Len(alerts) : OnPage /\ AlertExpires(k)
    \/ \E k \in 1..Len(alerts) : OnPage /\ Dismiss(k)

SpecSubmit == InitSubmit /\ [][NextSubmit]_vars

\* ---- the handling of a failure on its own: any APIError, handed to the catch
\* block of handleAuthSubmit or to handleAPIError with any options
Failures ==
    LET FailureStatuses == {0, 400, 401, 403, 404, 422, 500}
        FailurePayloads ==
            { DataNull,
              DataString(<<"hello">>),
              DataObject(Undef, NoErrors, Undef),
              DataObject(Str(<<"bad">>), NoErrors, Undef),
              DataObject(Undef, ErrorsObject([n \in {"email"} |-> Array(<< <<"taken">> >>)]), Undef) }
    IN
    { APIError(m, s, d) : m \in {Str(<<"failed">>), Str(<<>>)}, s \in FailureStatuses,
                          d \in FailurePayloads }

\* handleAuthSubmit, lines 135-140: the catch block takes the failure
CatchesFailure ==
    LET after == AfterSubmit(failure, form, errorDivs, hasError, alerts, location)
    IN  /\ handled.by = "none"
        /\ errorDivs' = after.divs
        /\ hasError' = after.flags
        /\ alerts' = after.alerts
        /\ location' = after.location
        /\ handled' = [by |-> "handleAuthSubmit", redirectOnAuth |-> FALSE,
                       showAlert |-> TRUE]
        /\ UNCHANGED <<clientVars, taxonomyVars, form, value, timers, timeout, hist,
                       button, hideLoading, submitted, input, result, shellVars>>

\* handleAPIError(error, options) is called with the failure; an option is
\* FALSE when the caller passed false for it
CallsHandleAPIError(redirectOnAuth, alert) ==
    LET h == handleAPIError(failure, redirectOnAuth, alert, alerts, location)
    IN  /\ handled.by = "none"
        /\ alerts' = h.alerts
        /\ location' = h.location
        /\ handled' = [by |-> "handleAPIError", redirectOnAuth |-> redirectOnAuth,
                       showAlert |-> alert]
        /\ UNCHANGED <<clientVars, taxonomyVars, fieldVars, button, hideLoading,
                       submitted, input, result, shellVars>>

InitFailures ==
    /\ meta = [present |-> FALSE, content |-> Null]
    /\ cookieJar = <<>>
    /\ calls = [c \in CallIds |-> IdleCall]
    /\ wire = [c \in CallIds |-> NoWire]
    /\ failure \in Failures
    /\ category = NoCategory
    /\ FieldsInit(SignInForm)
    /\ PageInit
    /\ UnitInit

NextFailures ==
    \/ CatchesFailure
    \/ \E r \in BOOLEAN, a \in BOOLEAN : CallsHandleAPIError(r, a)

SpecFailures == InitFailures /\ [][NextFailures]_vars

\* ---- validateForm on its own: any of the forms, any values in its fields
\* Forms handed to validateForm: fields with and without the required,
\* minlength and maxlength attributes (minLength and maxLength are -1 without)
ReportForms ==
    LET RegisterForm ==
            [fields |-> << Field("username", "text", TRUE, 4, 6, TRUE, TRUE),
                           Field("email", "email", FALSE, -1, -1, TRUE, TRUE),
                           Field("password", "password", TRUE, -1, -1, TRUE, TRUE) >>,
             method |-> "post"]
        BoundedForm ==
            [fields |-> << Field("email", "email", TRUE, 4, 4, TRUE, TRUE),
                           Field("password", "password", TRUE, 4, 6, TRUE, TRUE),
                           Field("notes", "text", FALSE, 0, 0, TRUE, TRUE) >>,
             method |-> "post"]
    IN  {LoginForm, ProfileForm, RegisterForm, BoundedForm}

\* validateForm(form) is called
CallsValidateForm ==
    /\ result.fn = "none"
    /\ result' = [NoResult EXCEPT !.fn = "validateForm",
                                  !.isValid = validateForm(form, value).isValid,
                                  !.errors = validateForm(form, value).errors]
    /\ UNCHANGED <<clientVars, taxonomyVars, fieldVars, pageVars, input, handled, shellVars>>

\* validateForm(form) of src/unnamed/part_001 is called
CallsValidateForm001 ==
    /\ result.fn = "none"
    /\ LET errs(i) == FieldErrors001(form.fields[i],
                                     FormDataGet(form, value, form.fields[i].name))
           failing == {i \in FieldIds(form) : Len(errs(i)) > 0}
           last(n) == CHOOSE i \in failing :
                         /\ form.fields[i].name = n
                         /\ \A j \in failing : form.fields[j].name = n => j <= i
           errors == [n \in {form.fields[i].name : i \in failing} |-> Array(errs(last(n)))]
       IN  result' = [NoResult EXCEPT !.fn = "validateForm001",
                                     !.isValid = (DOMAIN errors = {}),
                                     !.errors = errors]
    /\ UNCHANGED <<clientVars, taxonomyVars, fieldVars, pageVars, input, handled, shellVars>>

InitReport ==
    /\ ClientIdle
    /\ \E f \in ReportForms :
          /\ form = f
          /\ value \in [FieldIds(f) -> Values]
          /\ errorDivs = [i \in FieldIds(f) |-> <<>>]
          /\ hasError = [i \in FieldIds(f) |-> FALSE]
          /\ timers = [i \in FieldIds(f) |-> NoTimers]
          /\ timeout = [i \in FieldIds(f) |-> 0]
          /\ hist = [i \in FieldIds(f) |-> NoHistory]
    /\ PageInit
    /\ UnitInit

NextReport ==
    \/ CallsValidateForm
    \/ CallsValidateForm001

SpecReport == InitReport /\ [][NextReport]_vars

\* ---- the validators on their own: one string, handed to one of them
\* Digit strings of every length, alone, with one stray character anywhere,
\* and, around nine digits, with a dash after the second digit and one more
\* stray character anywhere
NumberInputs ==
    LET DigitAt(i) == <<"1", "2", "3", "4", "5", "6", "7", "8", "9", "0">>[((i - 1) % 10) + 1]
        DigitString(n) == [i \in 1..n |-> DigitAt(i)]
        Insert(s, p, ch) ==
            SubSeq(s, 1, Min(p, Len(s))) \o <<ch>> \o SubSeq(s, Min(p, Len(s)) + 1, Len(s))
        Strays == {"-", " ", "a", "\n"}
    IN  { DigitString(n) : n \in 0..MaxDigits }
        \cup { Insert(DigitString(n), p, ch) :
                 n \in 0..MaxDigits, p \in 0..MaxDigits, ch \in Strays }
        \cup { Insert(Insert(DigitString(n), 2, "-"), q, ch) :
                 n \in 8..10, q \in 0..11, ch \in Strays }
        \cup { <<"1", "2", "3", "-", "4", "5", "6", "-", "7", "8", "9">>,
                 [i \in 1..9 |-> "1"] }

\* Passwords of every length made of every choice of character classes
PasswordInputs ==
    LET atoms == <<"a", "A", "1", "!", "_">>
        Cycle(base, n) == [i \in 1..n |-> base[((i - 1) % Len(base)) + 1]]
    IN  { Cycle(SelectSeq(atoms, LAMBDA ch : ch \in {atoms[i] : i \in S}), n) :
            S \in (SUBSET (1..Len(atoms))) \ {{}}, n \in 0..MaxPassword }
        \cup { <<"a", "b", "c">>, <<"A", "b", "c", "d", "1", "2", "3", "!">> }

CallsValidateTIN ==
    /\ result.fn = "none"
    /\ result' = [result EXCEPT !.fn = "validateTIN",
                                !.isValid = validateTIN(input).isValid,
                                  !.message = validateTIN(input).message]
    /\ UNCHANGED <<clientVars, taxonomyVars, fieldVars, pageVars, input, handled, shellVars>>

CallsValidateBankAccount ==
    /\ result.fn = "none"
    /\ result' = [result EXCEPT !.fn = "validateBankAccount",
                                  !.isValid = validateBankAccount(input).isValid,
                                  !.message = validateBankAccount(input).message]
    /\ UNCHANGED <<clientVars, taxonomyVars, fieldVars, pageVars, input, handled, shellVars>>

CallsValidatePassword ==
    /\ result.fn = "none"
    /\ result' = [result EXCEPT !.fn = "validatePassword",
                                  !.isValid = validatePassword(input).isValid,
                                  !.score = validatePassword(input).score,
                                  !.feedback = validatePassword(input).feedback]
    /\ UNCHANGED <<clientVars, taxonomyVars, fieldVars, pageVars, input, handled, shellVars>>

CallsValidateRoutingNumber ==
    /\ result.fn = "none"
    /\ result' = [result EXCEPT !.fn = "validateRoutingNumber",
                                !.isValid = validateRoutingNumber(input).isValid,
                                !.message = validateRoutingNumber(input).message]
    /\ UNCHANGED <<clientVars, taxonomyVars, fieldVars, pageVars, input, handled, shellVars>>

CallsFormatTIN ==
    /\ result.fn = "none"
    /\ result' = [result EXCEPT !.fn = "formatTIN", !.value = formatTIN(input)]
    /\ UNCHANGED <<clientVars, taxonomyVars, fieldVars, pageVars, input, handled, shellVars>>

\* The string formatTIN returned is the argument of the next call
PassesFormatted ==
    /\ result.fn = "formatTIN"
    /\ result.from = "none"
    /\ input' = result.value
    /\ result' = [NoResult EXCEPT !.from = "formatTIN", !.arg = input]
    /\ UNCHANGED <<clientVars, taxonomyVars, fieldVars, pageVars, handled, shellVars>>

InitValidators ==
    /\ ClientIdle
    /\ FieldsInit(LoginForm)
    /\ PageInit
    /\ input \in NumberInputs \cup PasswordInputs
    /\ result = NoResult
    /\ handled = NoHandling
    /\ pathname = <<"/">>
    /\ localStorage = Null
    /\ documentBody = [modals |-> 0, overflow |-> ""]
    /\ gate = [readyState |-> "complete", stage |-> "start", listener |-> FALSE,
               decisions |-> <<>>]
    /\ notices = [n \in 1..MaxNotices |-> NoNotice]

NextValidators ==
    \/ CallsValidateTIN
    \/ CallsValidateBankAccount
    \/ CallsValidatePassword
    \/ CallsValidateRoutingNumber
    \/ CallsFormatTIN
    \/ PassesFormatted

SpecValidators == InitValidators /\ [][NextValidators]_vars

\* ---- the page shell: the agreement script and the CTF details modal
\* checkAgreement(), with isExemptPage() and hasUserAgreed(): "exempt",
\* "redirect" (redirectToEntry() was called) or "pass", or "threw" when
\* localStorage cannot be read.  A row of
\* document.cookie.split('; ') is one cookie's name=value.
checkAgreement(path, store, jar) ==
    LET isExemptPage == path # <<>> /\ path[Len(path)] = "/agreement"
        rows == [i \in 1..Len(jar) |-> CookiePair(jar[i])]
        found == {i \in 1..Len(rows) : SubSeq(rows[i], 1, 2) = <<"agreedToRules", "=">>}
        first == CHOOSE i \in found : \A j \in found : i <= j
        cookieAgreed == found # {} /\ Split(rows[first], "=")[2] = <<"yes">>
        localStorageAgreed == store = Str(<<"yes">>)
    IN  IF isExemptPage THEN "exempt"
        ELSE IF store.k = "denied" THEN "threw"
        ELSE IF ~(localStorageAgreed \/ cookieAgreed) THEN "redirect"
        ELSE "pass"

\* The script runs, lines 57-65: a listener while the document is loading, a
\* run of checkAgreement otherwise, and then one more run; an exception ends it.
RunsScript ==
    LET d == checkAgreement(pathname, localStorage, cookieJar)
        loading == gate.readyState = "loading"
        decisions == IF loading \/ d = "threw" THEN <<d>> ELSE <<d, d>>
    IN  /\ gate.stage = "start"
        /\ gate' = [gate EXCEPT !.stage = "ran", !.listener = loading,
                                !.decisions = decisions]
        /\ location' = IF d = "redirect" THEN "/agreement" ELSE location
        /\ UNCHANGED <<clientVars, taxonomyVars, fieldVars, unitVars, button, hideLoading,
                       alerts, submitted, pathname, localStorage, documentBody, notices>>

\* DOMContentLoaded: the listener runs checkAgreement
DOMContentLoaded ==
    LET d == checkAgreement(pathname, localStorage, cookieJar)
    IN  /\ gate.stage = "ran"
        /\ gate.listener
        /\ gate' = [gate EXCEPT !.listener = FALSE, !.readyState = "interactive",
                                !.decisions = Append(@, d)]
        /\ location' = IF d = "redirect" THEN "/agreement" ELSE location
        /\ UNCHANGED <<clientVars, taxonomyVars, fieldVars, unitVars, button, hideLoading,
                       alerts, submitted, pathname, localStorage, documentBody, notices>>

\* showCTFDetailsModal(): one more <div id="ctf-modal"> is appended to the body
showCTFDetailsModal ==
    /\ documentBody.modals < MaxModals
    /\ documentBody' = [modals |-> documentBody.modals + 1, overflow |-> "hidden"]
    /\ UNCHANGED <<clientVars, taxonomyVars, fieldVars, unitVars, pageVars,
                   pathname, localStorage, gate, notices>>

\* closeCTFModal(): the first element with the id, if any, is removed
closeCTFModal ==
    /\ documentBody' = IF documentBody.modals > 0
               THEN [modals |-> documentBody.modals - 1, overflow |-> ""]
               ELSE documentBody
    /\ UNCHANGED <<clientVars, taxonomyVars, fieldVars, unitVars, pageVars,
                   pathname, localStorage, gate, notices>>

\* Any page, any record of the agreement, the script included before or after
\* the document was parsed
InitShell ==
    /\ meta = [present |-> FALSE, content |-> Null]
    /\ cookieJar \in { <<>>,
                       <<Cookie(<<"agreedToRules">>, <<"yes">>)>>,
                       <<Cookie(<<"agreedToRules">>, <<"no">>)>>,
                       <<Cookie(<<"sid">>, <<"yes">>)>>,
                       <<Cookie(<<"sid">>, <<"u">>), Cookie(<<"agreedToRules">>, <<"yes">>)>>,
                       <<Cookie(<<"agreedToRules">>, <<"yes", "=", "1">>)>> }
    /\ calls = [c \in CallIds |-> IdleCall]
    /\ wire = [c \in CallIds |-> NoWire]
    /\ failure = NoFailure
    /\ category = NoCategory
    /\ FieldsInit(LoginForm)
    /\ PageInit
    /\ input = <<>>
    /\ result = NoResult
    /\ handled = NoHandling
    /\ pathname \in { <<"/">>, <<"/agreement">>, <<"/ctf", "/agreement">>,
                      <<"/agreement", "/">>, <<"/disagreement">> }
    /\ localStorage \in { Null, Str(<<"yes">>), Str(<<"no">>), [k |-> "denied", s |-> <<>>] }
    /\ documentBody = [modals |-> 0, overflow |-> ""]
    /\ gate \in { [readyState |-> r, stage |-> "start", listener |-> FALSE,
                    decisions |-> <<>>] : r \in {"loading", "complete"} }
    /\ notices = [n \in 1..MaxNotices |-> NoNotice]

NextShell ==
    \/ RunsScript
    \/ DOMContentLoaded
    \/ showCTFDetailsModal
    \/ closeCTFModal

SpecShell == InitShell /\ [][NextShell]_vars

\* ---- showAlert on its own: each alert it made, with its timer, which
\* outlives the alert when the user closes the alert first
\* Where notice n is among the alerts: later alerts were inserted before it
Position(n) ==
    1 + Cardinality({j \in 1..MaxNotices : j > n /\ notices[j].state = "shown"})

\* showAlert(message, type, duration) is called
CallsShowAlert(duration) ==
    LET free == {n \in 1..MaxNotices : notices[n].state = "none"}
        n == CHOOSE x \in free : \A y \in free : x <= y
        as == showAlert(alerts, <<"Saved">>, "info", duration)
    IN  /\ free # {}
        /\ alerts' = as
        /\ notices' = [notices EXCEPT ![n] =
                          [state |-> "shown", duration |-> duration, left |-> as[1].timer,
                           removals |-> 0, by |-> "none"]]
        /\ UNCHANGED <<clientVars, taxonomyVars, fieldVars, unitVars, button, hideLoading,
                       location, submitted, pathname, localStorage, documentBody, gate>>

\* Time passes, up to the next timer that is due
Elapses ==
    LET left == {notices[n].left : n \in 1..MaxNotices} \ {-1, 0}
        d == CHOOSE x \in left : \A y \in left : x <= y
    IN  /\ left # {}
        /\ notices' = [n \in 1..MaxNotices |->
                          [notices[n] EXCEPT !.left = IF @ > 0 THEN @ - d ELSE @]]
        /\ alerts' = [k \in 1..Len(alerts) |->
                        [alerts[k] EXCEPT !.timer = IF @ > 0 THEN @ - d ELSE @]]
        /\ UNCHANGED <<clientVars, taxonomyVars, fieldVars, unitVars, button, hideLoading,
                       location, submitted, pathname, localStorage, documentBody, gate>>

\* The timer of notice n fires, lines 310-314: the alert is removed if it still
\* has a parent
RemovalTimerFires(n) ==
    /\ notices[n].left = 0
    /\ IF notices[n].state = "shown"
       THEN /\ alerts' = Remove(alerts, Position(n))
            /\ notices' = [notices EXCEPT ![n] =
                              [@ EXCEPT !.state = "removed", !.left = -1,
                                        !.removals = @ + 1, !.by = "timer"]]
       ELSE /\ notices' = [notices EXCEPT ![n].left = -1]
            /\ UNCHANGED alerts
    /\ UNCHANGED <<clientVars, taxonomyVars, fieldVars, unitVars, button, hideLoading,
                   location, submitted, pathname, localStorage, documentBody, gate>>

\* The user clicks the close button of notice n: this.parentElement.remove()
Closes(n) ==
    /\ notices[n].state = "shown"
    /\ alerts' = Remove(alerts, Position(n))
    /\ notices' = [notices EXCEPT ![n] =
                      [@ EXCEPT !.state = "removed", !.removals = @ + 1, !.by = "user"]]
    /\ UNCHANGED <<clientVars, taxonomyVars, fieldVars, unitVars, button, hideLoading,
                   location, submitted, pathname, localStorage, documentBody, gate>>

InitAlerts ==
    /\ ClientIdle
    /\ FieldsInit(LoginForm)
    /\ PageInit
    /\ UnitInit

NextAlerts ==
    \/ \E duration \in {-1, 0, 3000, AlertDuration} : CallsShowAlert(duration)
    \/ Elapses
    \/ \E n \in 1..MaxNotices : RemovalTimerFires(n)
    \/ \E n \in 1..MaxNotices : Closes(n)

\* Timers run: time passes and a due timer fires
SpecAlerts ==
    /\ InitAlerts
    /\ [][NextAlerts]_vars
    /\ WF_vars(Elapses)
    /\ \A n \in 1..MaxNotices : WF_vars(RemovalTimerFires(n))

\* ===================================================================
\* Properties of the submit handler
\* ===================================================================
SubmitHappens == submitted'.tick # submitted.tick

RequestIssued ==
    \/ \E c \in CallIds : calls'[c].pc = "fetch" /\ calls[c].pc # "fetch"
    \/ \E c \in CallIds : wire'[c].sent /\ ~wire[c].sent
    \/ submitted'.requested

\* What the form displays for a report: each field of a group that the report
\* names shows one of the field's messages, the others show nothing.
Displays(report, divs, flags) ==
    \A i \in FieldIds(form) :
        form.fields[i].group =>
            IF form.fields[i].name \in DOMAIN report.errors
            THEN /\ flags[i]
                 /\ Len(divs[i]) = 1
                 /\ \E k \in 1..Len(report.errors[form.fields[i].name].items) :
                        divs[i][1] = report.errors[form.fields[i].name].items[k]
            ELSE divs[i] = <<>> /\ ~flags[i]

RequiredAndEmpty(i) == form.fields[i].required /\ Trim(value[i]) = <<>>

FieldValid(i) == FieldErrors(form.fields[i], Str(value[i])) = <<>>

OneInvalidRequiredOneValid ==
    /\ Len(form.fields) = 2
    /\ \E i \in FieldIds(form), j \in FieldIds(form) :
          i # j /\ RequiredAndEmpty(i) /\ FieldValid(j)

\* C1: at a submit event, with the report validateForm gives for the form as
\* it is then, a report with at least one field in error makes
\* the handler display the field errors and issue no request; a request is issued
\* only for a report with isValid = TRUE; for a form with one invalid required
\* field and one valid field the report's errors have exactly one key and no
\* request is issued.
C1_Step ==
    SubmitHappens =>
        LET report == validateForm(form, value)
        IN  /\ DOMAIN report.errors # {}
                => ~RequestIssued /\ Displays(report, errorDivs', hasError')
            /\ RequestIssued => report.isValid
            /\ OneInvalidRequiredOneValid
                => Cardinality(DOMAIN report.errors) = 1 /\ ~RequestIssued

C1_InvalidSubmitSendsNothing == [][C1_Step]_vars

C1_Witness ==
    /\ submitted.happened
    /\ OneInvalidRequiredOneValid
    /\ Cardinality(DOMAIN validateForm(form, value).errors) = 1
    /\ Displays(validateForm(form, value), errorDivs, hasError)
    /\ ~submitted.requested
    /\ \A c \in CallIds : ~wire[c].sent

\* C6: N >= 1 input events on a field, each before the previous one's delay has
\* elapsed, cause exactly one run of validateField, one delay after the last
\* event and on the value of the last event; a new event cancels the pending
\* run; other fields' events neither cancel nor trigger it.
C6_Field(i) ==
    LET h == hist[i]
    IN  /\ Cardinality({t \in 1..MaxTimers : timers[i][t] >= 0}) <= 1
        /\ Pending(timers[i]) => h.runs = 0
        /\ (~Pending(timers[i]) /\ h.events >= 1)
              => /\ h.runs = 1
                 /\ h.ran = Str(h.last)
                 /\ h.ranSince >= DebounceWait

C6_OneRunPerBurst ==
    \A i \in FieldIds(form) : form.fields[i].control => C6_Field(i)

C6_Witness ==
    \E i \in FieldIds(form), j \in FieldIds(form) :
        /\ i # j
        /\ hist[i].events >= 2 /\ ~Pending(timers[i]) /\ hist[i].runs = 1
        /\ Pending(timers[j])

\* C7: once a field is quiet (no timer pending) and has been validated, what
\* its group displays is the result of validating its current value; every
\* change of the display shows the result for the value the field has then.
Shown(i, vals, divs, flag) ==
    LET message == FieldMessage(form.fields[i], Trim(vals[i]), form, vals)
    IN  /\ divs = IF message = <<>> THEN <<>> ELSE <<message>>
        /\ flag = (message # <<>>)

C7_Quiet ==
    \A i \in FieldIds(form) :
        (form.fields[i].group /\ ~Pending(timers[i]) /\ hist[i].checked)
        => Shown(i, value, errorDivs[i], hasError[i])

C7_Step ==
    \A i \in FieldIds(form) :
        (errorDivs'[i] # errorDivs[i] \/ hasError'[i] # hasError[i])
        => Shown(i, value', errorDivs'[i], hasError'[i])

C7_NoStaleResult == []C7_Quiet /\ [][C7_Step]_vars

C7_Witness ==
    \E i \in FieldIds(form) :
        /\ ~Pending(timers[i]) /\ hist[i].checked /\ hist[i].events >= 2
        /\ errorDivs[i] # <<>>
        /\ hist[i].ran # Undef /\ value[i] = hist[i].last

\* ===================================================================
\* Properties of the request client and of the taxonomy
\* ===================================================================
TokenHeader == "X-CSRF-Token"

\* The token source, read as the specification describes it: the meta tag
\* provides a token when it has a non-empty content, the cookie holds one when
\* a cookie named csrf_token has a value.  A cookie value is plain when it has
\* no "=" and no percent sign, so that no parsing or decoding can alter it.
MetaProvides(m) == m.present /\ Truthy(m.content)

CsrfCookies(jar) == {i \in 1..Len(jar) : jar[i].name = <<"csrf_token">>}

PlainValue(v) == v # <<>> /\ \A i \in 1..Len(v) : v[i] \notin {"=", "%", "%3D"}

CookieHolds(jar) ==
    CsrfCookies(jar) # {} /\ \A i \in CsrfCookies(jar) : PlainValue(jar[i].value)

CookieToken(jar) == jar[CHOOSE i \in CsrfCookies(jar) : \A j \in CsrfCookies(jar) : i <= j].value

NoTokenAnywhere(m, jar) ==
    /\ ~MetaProvides(m)
    /\ \A i \in CsrfCookies(jar) : jar[i].value = <<>>

Begins(c) == calls[c].pc = "idle" /\ calls'[c].pc # "idle"

NonGet(method) == method \notin {"undef", "GET"}

Carries(w, token) ==
    w.sent /\ TokenHeader \in DOMAIN w.headers /\ w.headers[TokenHeader] = token

SentWithout(w) == w.sent /\ TokenHeader \notin DOMAIN w.headers

\* C2: a non-GET request carries X-CSRF-Token exactly when the token source holds
\* a token, with that token as its value; with no token it is sent without the
\* header; request() adds no token header to a GET.
C2_Step(c) ==
    LET method == calls'[c].method
        token == IF MetaProvides(meta) THEN meta.content.s ELSE CookieToken(cookieJar)
    IN  /\ (NonGet(method) /\ (MetaProvides(meta) \/ CookieHolds(cookieJar)))
              => Carries(wire'[c], token)
        /\ (NonGet(method) /\ NoTokenAnywhere(meta, cookieJar)) => SentWithout(wire'[c])
        /\ method = "GET" => TokenHeader \notin DOMAIN wire'[c].headers

C2_TokenHeaderIffDiscoverable == [][\A c \in CallIds : Begins(c) => C2_Step(c)]_vars

\* C3: isAuthError iff 401 or 403, isValidationError iff 400 or 422, isServerError
\* iff >= 500; at most one of them holds; none holds for status 0.
C3_Categories ==
    category.asked =>
        /\ category.auth <=> failure.status \in {401, 403}
        /\ category.validation <=> failure.status \in {400, 422}
        /\ category.server <=> failure.status >= 500
        /\ ~(category.auth /\ category.validation)
        /\ ~(category.auth /\ category.server)
        /\ ~(category.validation /\ category.server)
        /\ failure.status = 0 => ~category.auth /\ ~category.validation /\ ~category.server

C3_Witness ==
    /\ category.asked /\ failure.status = 403
    /\ category.auth /\ ~category.validation /\ ~category.server

\* The payload's message field, when it is present (and not empty).
HasMessage(data) == data.k = "object" /\ Truthy(data.message)

\* C4: a response with a non-success status makes request() raise an APIError
\* with the response's status, the decoded body as payload, and the payload's
\* message or else "HTTP <status>: <status text>", whatever the decoded body.
C4_FailureCarriesStatusAndBody ==
    \A c \in CallIds :
        LET call == calls[c]
            dec == DecodeBody(call.resp)
        IN  (call.pc = "done" /\ call.resp.net = "response" /\ ~Ok(call.resp) /\ ~dec.threw)
            => /\ call.outcome.kind = "APIError"
               /\ call.outcome.status = call.resp.status
               /\ call.outcome.data = dec.data
               /\ call.outcome.message =
                      IF HasMessage(dec.data) THEN dec.data.message
                      ELSE GenericMessage(call.resp)

\* C5: no exception other than an APIError leaves request(); a transport
\* failure and a decoding failure end as APIError with status 0, payload null
\* and the error's message (or "Network error occurred"), never as a Success.
Status0Failure(outcome, error) ==
    outcome = APIError(IF Truthy(error.message) THEN error.message
                       ELSE Str(<<"Network error occurred">>), 0, DataNull)

C5_Cases(call) ==
    /\ call.resp.net = "failed" => Status0Failure(call.outcome, call.resp.error)
    /\ (call.resp.net = "response" /\ DecodeBody(call.resp).threw)
           => Status0Failure(call.outcome, DecodeBody(call.resp).error)

C5_OnlyFailuresEscape ==
    \A c \in CallIds :
        calls[c].pc = "done"
        => /\ calls[c].outcome.kind \in {"Success", "APIError"}
           /\ C5_Cases(calls[c])

\* C8: upload() issues a POST without the default Content-Type header.
C8_UploadOmitsContentType ==
    \A c \in CallIds :
        (calls[c].op = "upload" /\ wire[c].sent)
        => /\ wire[c].method = "POST"
           /\ ~("Content-Type" \in DOMAIN wire[c].headers
                /\ wire[c].headers["Content-Type"] = defaultHeaders["Content-Type"])

\* C9: download() saves the body of every successful response as it came,
\* whatever the media type, never parsed as JSON, never as a failure.
C9_DownloadSavesRawBody ==
    \A c \in CallIds :
        LET call == calls[c]
        IN  (call.op = "download" /\ call.pc = "done"
             /\ call.resp.net = "response" /\ Ok(call.resp))
            => /\ call.outcome.kind = "Success"
               /\ call.saved = Str(BodyText(call.resp.body))

\* C10: the token of a non-GET request is the meta tag's when the meta tag
\* provides one, and otherwise the cookie's when the cookie holds one.
C10_Step(c) ==
    NonGet(calls'[c].method) =>
        /\ MetaProvides(meta) => Carries(wire'[c], meta.content.s)
        /\ (~MetaProvides(meta) /\ CookieHolds(cookieJar))
               => Carries(wire'[c], CookieToken(cookieJar))

C10_MetaThenCookie == [][\A c \in CallIds : Begins(c) => C10_Step(c)]_vars

\* The token the source holds, read as the specification describes the source:
\* the meta tag's when the meta tag provides one, else the cookie's.
SourceHolds(m, jar) == MetaProvides(m) \/ CookieHolds(jar)

SourceToken(m, jar) == IF MetaProvides(m) THEN m.content.s ELSE CookieToken(jar)

\* C11: whatever rotations of the token source and whatever requests came
\* before, a non-GET request carries the token the source holds at the moment
\* the request is issued; when the source holds none it carries none, so that
\* no value read for an earlier request is ever sent.
C11_Fresh(c) ==
    NonGet(calls'[c].method) =>
        /\ SourceHolds(meta, cookieJar)
              => /\ wire'[c].sent
                 /\ TokenHeader \in DOMAIN wire'[c].headers
                 /\ wire'[c].headers[TokenHeader] = SourceToken(meta, cookieJar)
        /\ (NoTokenAnywhere(meta, cookieJar) /\ wire'[c].sent)
              => TokenHeader \notin DOMAIN wire'[c].headers

C11_TokenReadAtIssue == [][\A c \in CallIds : Begins(c) => C11_Fresh(c)]_vars

\* C12: the headers request() hands to fetch are the defaults overlaid by the
\* caller's headers: a name given by both has the caller's value, a default
\* the caller did not name has its default value, and every caller header is
\* sent as given.  (The token header is added after the merge.)
C12_Merged(given, sent) ==
    /\ \A h \in DOMAIN given \cap DOMAIN defaultHeaders : sent[h] = given[h]
    /\ \A h \in DOMAIN defaultHeaders \ DOMAIN given :
           h \in DOMAIN sent /\ sent[h] = defaultHeaders[h]
    /\ \A h \in DOMAIN given : h \in DOMAIN sent /\ sent[h] = given[h]
    /\ DOMAIN sent \ {TokenHeader} = DOMAIN defaultHeaders \cup DOMAIN given

C12_CallerWinsMerge ==
    \A c \in CallIds : wire[c].sent => C12_Merged(calls[c].given, wire[c].headers)

C12_Witness ==
    \E c \in CallIds :
        /\ wire[c].sent
        /\ "Content-Type" \in DOMAIN calls[c].given
        /\ calls[c].given["Content-Type"] # defaultHeaders["Content-Type"]
        /\ wire[c].headers["Content-Type"] = calls[c].given["Content-Type"]
        /\ TokenHeader \in DOMAIN wire[c].headers

\* C13: every call of the client performs exactly one transport call, whatever
\* its outcome.
C13_OneTransportCall ==
    \A c \in CallIds : calls[c].pc = "done" => calls[c].fetches = 1

\* ===================================================================
\* Properties of field validation and of failure handling
\* ===================================================================
\* The rule set of a field as the specification lists it: required, then the
\* rule of the field's type, then the length bounds, on the trimmed value.
C14_RuleFails(field, v) ==
    \/ field.required /\ v = <<>>
    \/ field.type = "email" /\ v # <<>> /\ ~isValidEmail(v)
    \/ field.type = "password" /\ v # <<>> /\ ~validatePassword(v).isValid
    \/ field.minLength > 0 /\ v # <<>> /\ Len(v) < field.minLength
    \/ field.maxLength > 0 /\ Len(v) > field.maxLength

\* C14: after a field has lost focus, and until it is edited again, its group
\* shows an error exactly when one of the rules of its rule set fails for its
\* trimmed value.
C14_BlurAppliesRuleSet ==
    \A i \in FieldIds(form) :
        (form.fields[i].group /\ hist[i].blurred)
        => ((errorDivs[i] # <<>> /\ hasError[i])
            <=> C14_RuleFails(form.fields[i], Trim(value[i])))

\* C15: a failure of a submit with status 400 or 422, whatever its payload, is
\* never surfaced as an alert.
C15_ValidationFailureNeverAlerts ==
    (handled.by = "handleAuthSubmit" /\ failure.status \in {400, 422})
    => alerts = <<>>

\* The message handleAPIError surfaces for a failure: the payload's message,
\* else the failure's own, else a default.
FailureMessage(e) ==
    IF HasMessage(e.data) THEN e.data.message.s
    ELSE IF Truthy(e.message) THEN e.message.s
    ELSE <<"An error occurred">>

OneAlert(e) == << [message |-> FailureMessage(e), type |-> "danger", timer |-> AlertDuration] >>

\* C16: handleAPIError sends the window to /login, with no alert, for a 401 or
\* 403 unless redirectOnAuth is false; in every other case it leaves the window
\* where it is and shows exactly one alert with the failure's message, or none
\* when showAlert is false.
C16_AuthRedirectOrOneAlert ==
    handled.by = "handleAPIError" =>
        IF failure.status \in {401, 403} /\ handled.redirectOnAuth
        THEN location = "/login" /\ alerts = <<>>
        ELSE /\ location = "page"
             /\ alerts = IF handled.showAlert THEN OneAlert(failure) ELSE <<>>

C16_Witness ==
    /\ handled.by = "handleAPIError"
    /\ failure.status = 401
    /\ ~handled.redirectOnAuth /\ handled.showAlert
    /\ location = "page"
    /\ Len(alerts) = 1 /\ alerts[1].message = <<"bad">>

\* A field has errors when it is required and blank, when its value is not
\* empty and breaks the rule of its type, or when its length is out of bounds.
C17_HasErrors(field, v) ==
    \/ field.required /\ Trim(v) = <<>>
    \/ field.type = "email" /\ v # <<>> /\ ~isValidEmail(v)
    \/ field.type = "password" /\ v # <<>> /\ ~validatePassword(v).isValid
    \/ field.minLength > 0 /\ v # <<>> /\ Len(v) < field.minLength
    \/ field.maxLength > 0 /\ Len(v) > field.maxLength

\* C17: in the report of validateForm, isValid holds exactly when errors is
\* empty, every name in errors has at least one message, a field without
\* errors is absent from errors and a field with errors is present.
C17_ReportShape ==
    result.fn = "validateForm" =>
        /\ result.isValid <=> (DOMAIN result.errors = {})
        /\ \A n \in DOMAIN result.errors :
               result.errors[n].k = "array" /\ Len(result.errors[n].items) >= 1
        /\ \A i \in FieldIds(form) :
               (form.fields[i].name \in DOMAIN result.errors)
               <=> C17_HasErrors(form.fields[i], value[i])

C17_Witness ==
    /\ result.fn = "validateForm"
    /\ ~result.isValid
    /\ \E n \in DOMAIN result.errors : Len(result.errors[n].items) >= 2
    /\ \E i \in FieldIds(form) : form.fields[i].name \notin DOMAIN result.errors

\* ===================================================================
\* Properties of the validators
\* ===================================================================
DigitCount(s) == Cardinality({i \in 1..Len(s) : s[i] \in Digits})

AllDigits(s) == \A i \in 1..Len(s) : s[i] \in Digits

\* Two digits, an optional dash, seven digits, and nothing else
TinShape(s) ==
    \/ Len(s) = 9 /\ AllDigits(s)
    \/ Len(s) = 10 /\ s[3] = "-" /\ AllDigits(SubSeq(s, 1, 2)) /\ AllDigits(SubSeq(s, 4, 10))

\* C18: validateTIN accepts a string exactly when nine digits are left after
\* removing the other characters and the string itself is two digits, an
\* optional dash and seven digits; "12-3456789" is valid, "123-456-789" is not.
C18_TinExactPattern ==
    result.fn = "validateTIN" =>
        /\ result.isValid <=> (DigitCount(input) = 9 /\ TinShape(input))
        /\ input = <<"1", "2", "-", "3", "4", "5", "6", "7", "8", "9">> => result.isValid
        /\ input = <<"1", "2", "3", "-", "4", "5", "6", "-", "7", "8", "9">> => ~result.isValid

C18_Witness ==
    /\ result.fn = "validateTIN"
    /\ DigitCount(input) = 9 /\ Len(input) = 11
    /\ input[4] = "-" /\ input[8] = "-"
    /\ ~result.isValid

RuleMet(k, p) ==
    CASE k = 1 -> Len(p) >= 8
      [] k = 2 -> \E i \in 1..Len(p) : p[i] \in Lower
      [] k = 3 -> \E i \in 1..Len(p) : p[i] \in Upper
      [] k = 4 -> \E i \in 1..Len(p) : p[i] \in Digits
      [] k = 5 -> \E i \in 1..Len(p) : p[i] \in Special

MessageRule(m) == CHOOSE k \in 1..5 : PasswordMessages[k] = m

\* C19: validatePassword gives one point per rule met (length, lowercase,
\* uppercase, digit, symbol), is valid from four points on, and its feedback
\* holds one message per rule not met, in the order of the rules.
C19_PasswordScore ==
    result.fn = "validatePassword" =>
        /\ result.score = Cardinality({k \in 1..5 : RuleMet(k, input)})
        /\ result.score >= 0 /\ result.score <= 5
        /\ result.isValid <=> result.score >= 4
        /\ Len(result.feedback) = 5 - result.score
        /\ \A k \in 1..5 :
               ~RuleMet(k, input)
               <=> \E j \in 1..Len(result.feedback) : result.feedback[j] = PasswordMessages[k]
        /\ \A i \in 1..Len(result.feedback), j \in 1..Len(result.feedback) :
               i < j => MessageRule(result.feedback[i]) < MessageRule(result.feedback[j])
        /\ input = <<"a", "b", "c">> => ~result.isValid /\ Len(result.feedback) >= 4
        /\ input = <<"A", "b", "c", "d", "1", "2", "3", "!">>
               => result.isValid /\ result.score = 5

C19_Witness ==
    /\ result.fn = "validatePassword"
    /\ Len(input) >= 8
    /\ result.score = 4 /\ result.isValid
    /\ result.feedback = <<PasswordMessages[5]>>

\* C20: validateBankAccount accepts a string exactly when it holds between 8
\* and 17 digits, whatever other characters it holds.
C20_BankAccountDigits ==
    result.fn = "validateBankAccount" =>
        (result.isValid <=> (DigitCount(input) >= 8 /\ DigitCount(input) <= 17))

C20_Witness ==
    /\ result.fn = "validateBankAccount"
    /\ DigitCount(input) = 17 /\ Len(input) = 18
    /\ result.isValid

NineDigitForm(s, digits) ==
    /\ Len(s) = 10 /\ s[3] = "-"
    /\ SubSeq(s, 1, 2) \o SubSeq(s, 4, 10) = digits

DigitsOf(s) == SelectSeq(s, LAMBDA ch : ch \in Digits)

\* C22: formatTIN returns the nine digits of its argument as DD-DDDDDDD when
\* the argument holds exactly nine digits, and the argument itself otherwise.
C22_FormatNineDigits ==
    result.fn = "formatTIN" =>
        IF DigitCount(input) = 9
        THEN NineDigitForm(result.value, DigitsOf(input))
        ELSE result.value = input

C22_Witness ==
    /\ result.fn = "formatTIN"
    /\ input = <<"1", "2", "3", "4", "5", "6", "7", "8", "9">>
    /\ result.value = <<"1", "2", "-", "3", "4", "5", "6", "7", "8", "9">>

C22_WitnessUnchanged ==
    /\ result.fn = "formatTIN"
    /\ DigitCount(input) = 5
    /\ result.value = input

\* C29: the formatted form of a string of exactly nine digits is a valid TIN,
\* and formatting a formatted string gives it back.
C29_FormatThenValidate ==
    result.from = "formatTIN" =>
        /\ (result.fn = "validateTIN" /\ DigitCount(result.arg) = 9) => result.isValid
        /\ result.fn = "formatTIN" => result.value = input

C29_Witness ==
    /\ result.from = "formatTIN"
    /\ result.fn = "validateTIN"
    /\ DigitCount(result.arg) = 9 /\ Len(result.arg) = 11
    /\ result.isValid

\* ===================================================================
\* Properties of the rules of validateForm
\* ===================================================================
\* The messages a report holds for field i of the form
ReportedFor(i) ==
    IF form.fields[i].name \in DOMAIN result.errors
    THEN result.errors[form.fields[i].name].items
    ELSE <<>>

Reports(i, message) == \E k \in 1..Len(ReportedFor(i)) : ReportedFor(i)[k] = message

MinMessage(field) ==
    <<field.name, " must be at least ", ToString(field.minLength), " characters">>

MaxMessage(field) ==
    <<field.name, " must be no more than ", ToString(field.maxLength), " characters">>

\* C23: validateForm, in either copy, reports the minimum-length message of a
\* field exactly when the field has a positive minLength and its non-empty
\* value is shorter, and the maximum-length message exactly when it has a
\* positive maxLength and its value is longer; a field without a positive
\* bound on a side never gets the message of that side.
C23_LengthBounds ==
    result.fn \in {"validateForm", "validateForm001"} =>
        \A i \in FieldIds(form) :
            LET field == form.fields[i]
            IN  /\ Reports(i, MinMessage(field))
                      <=> (field.minLength > 0 /\ value[i] # <<>>
                           /\ Len(value[i]) < field.minLength)
                /\ Reports(i, MaxMessage(field))
                      <=> (field.maxLength > 0 /\ Len(value[i]) > field.maxLength)

\* The messages each rule contributes for a field and its value
RequiredPart(field, v) ==
    IF field.required /\ Trim(v) = <<>> THEN << <<field.name, " is required">> >> ELSE <<>>

EmailPart(field, v) ==
    IF field.type = "email" /\ v # <<>> /\ ~isValidEmail(v)
    THEN << <<"Please enter a valid email address">> >> ELSE <<>>

PasswordPart(field, v) ==
    IF field.type = "password" /\ v # <<>>
       /\ Cardinality({k \in 1..5 : RuleMet(k, v)}) < 4
    THEN SelectSeq(PasswordMessages, LAMBDA m : ~RuleMet(MessageRule(m), v))
    ELSE <<>>

MinPart(field, v) ==
    IF field.minLength > 0 /\ v # <<>> /\ Len(v) < field.minLength
    THEN <<MinMessage(field)>> ELSE <<>>

MaxPart(field, v) ==
    IF field.maxLength > 0 /\ Len(v) > field.maxLength
    THEN <<MaxMessage(field)>> ELSE <<>>

\* C24: the messages validateForm reports for a field are those of the
\* failing rules, each in full, in the order required, email, password
\* feedback, minimum length, maximum length.
C24_RuleOrder ==
    result.fn = "validateForm" =>
        \A i \in FieldIds(form) :
            ReportedFor(i) = RequiredPart(form.fields[i], value[i])
                             \o EmailPart(form.fields[i], value[i])
                             \o PasswordPart(form.fields[i], value[i])
                             \o MinPart(form.fields[i], value[i])
                             \o MaxPart(form.fields[i], value[i])

C24_Witness ==
    /\ result.fn = "validateForm"
    /\ \E i \in FieldIds(form) :
          /\ RequiredPart(form.fields[i], value[i]) # <<>>
          /\ PasswordPart(form.fields[i], value[i]) # <<>>
          /\ MinPart(form.fields[i], value[i]) # <<>>
          /\ Len(ReportedFor(i)) = 7
    /\ \E i \in FieldIds(form) :
          /\ EmailPart(form.fields[i], value[i]) # <<>>
          /\ Len(ReportedFor(i)) = 3

\* ===================================================================
\* Properties of form submission
\* ===================================================================
JsonType(headers) ==
    "Content-Type" \in DOMAIN headers /\ headers["Content-Type"] = <<"application/json">>

\* C25: a request sent by submitForm with options.json carries the JSON body
\* and Content-Type application/json; without options.json it carries the
\* form data and no application/json Content-Type.
C25_SubmitFormContentType ==
    \A c \in CallIds :
        (calls[c].op = "submitForm" /\ wire[c].sent)
        => /\ wire[c].body = "json" => JsonType(wire[c].headers)
           /\ wire[c].body = "formData" => ~JsonType(wire[c].headers)

\* C26: once no run of handleAuthSubmit is in progress the submit button is
\* enabled, without the loading class and shows the text it had before the
\* first submit; a submit that fails validation leaves the button alone.
C26_ButtonRestored ==
    /\ [](((\A c \in CallIds : calls[c].pc = "idle") /\ OnPage) => button = SubmitButton)
    /\ [][(submitted' # submitted /\ ~submitted'.requested) => button' = button]_vars

\* ===================================================================
\* Properties of the page shell
\* ===================================================================
\* C27: the body's overflow is 'hidden' exactly while a ctf-modal element is
\* in the document.
C27_ScrollLockedIffModal ==
    (documentBody.overflow = "hidden") <=> (documentBody.modals >= 1)

Exempt(path) == path = <<"/agreement">> \/ (path # <<>> /\ path[Len(path)] = "/agreement")

RecordsAgreement ==
    \/ localStorage = Str(<<"yes">>)
    \/ \E i \in 1..Len(cookieJar) :
          cookieJar[i].name = <<"agreedToRules">> /\ cookieJar[i].value = <<"yes">>

\* C30: once the agreement script has run, the window was sent to '/agreement'
\* exactly when the page is not exempt and neither localStorage nor the cookie
\* records agreedToRules = 'yes'; never from '/agreement' itself; and every
\* run of checkAgreement on the page decided the same.
C30_AgreementGate ==
    gate.stage = "ran" =>
        /\ (location = "/agreement") <=> (~Exempt(pathname) /\ ~RecordsAgreement)
        /\ pathname = <<"/agreement">> => location = "page"
        /\ \A i \in 1..Len(gate.decisions), j \in 1..Len(gate.decisions) :
               gate.decisions[i] = gate.decisions[j]

\* ===================================================================
\* Properties of alerts
\* ===================================================================
\* C28: an alert shown with a positive duration is eventually removed, by its
\* timer unless the user closed it first, and then the timer does nothing: no
\* alert is removed twice or comes back; an alert shown with a duration of
\* zero or less has no timer and goes only when the user closes it.
C28_AlertEventuallyRemoved ==
    /\ \A n \in 1..MaxNotices :
          (notices[n].state = "shown" /\ notices[n].duration > 0)
          ~> (notices[n].state = "removed")
    /\ [](\A n \in 1..MaxNotices :
             /\ notices[n].removals <= 1
             /\ (notices[n].state # "none" /\ notices[n].duration <= 0)
                    => (notices[n].left = -1 /\ notices[n].by # "timer")
             /\ Len(alerts) = Cardinality({j \in 1..MaxNotices : notices[j].state = "shown"}))
    /\ [][\A n \in 1..MaxNotices :
             notices[n].state = "removed" => notices'[n].state = "removed"]_vars

C28_Witness ==
    \E n \in 1..MaxNotices :
        /\ notices[n].duration > 0
        /\ notices[n].by = "user"
        /\ notices[n].left = -1
        /\ notices[n].removals = 1
        /\ \E j \in 1..MaxNotices : notices[j].by = "timer"

====
